---- MODULE Spec2Model ----
(***************************************************************************)
(* Model of the double-entry bookkeeping engine of FinKen 2.0              *)
(* (backend/routes/journal_entries.py against the hosted database).        *)
(*                                                                         *)
(* Every request handler is a sequence of database calls.  One step of the *)
(* model is one database call together with the local computation that     *)
(* precedes it; the role lookup, which reads only the (static) profile     *)
(* table, is folded into the first step of its handler, and the trailing   *)
(* insert into journal_event_logs and the final read of the entry, which   *)
(* change none of the bookkeeping tables, are folded into the last step.   *)
(* The files of                                                            *)
(* a request are stored in one step: their failures are swallowed by the   *)
(* handler, so that all that shows is how many attachment records it       *)
(* inserted.                                                               *)
(*                                                                         *)
(* Amounts are Decimal values; the model writes them as integers (whole    *)
(* currency units), on which Decimal addition, subtraction and comparison  *)
(* are exact.                                                              *)
(***************************************************************************)
EXTENDS Integers, Sequences, FiniteSets, TLC

VARIABLES
    chartofaccounts,     \* table chartofaccounts: AccountID -> row
    journalentries,      \* table journalentries: JournalEntryID -> row
    journalentrylines,   \* table journalentrylines, in insertion order
    accountledger,       \* table accountledger, in insertion order
    journalattachments,  \* table journalattachments, in insertion order
    nextEntryID,         \* the JournalEntryID sequence of the database
    pc,                  \* per request slot: where its handler stands
    req,                 \* per request slot: the request being (or last) handled
    loc,                 \* per request slot: the handler's local variables
    resp,                \* per request slot: the response of the last finished request
    journal_event_logs,  \* table journal_event_logs: per request slot, the rows
                         \* its request has inserted
    notification,        \* per request slot: how notifying the managers of its
                         \* submission went
    password_history     \* table password_history, in insertion order

vars == <<chartofaccounts, journalentries, journalentrylines, accountledger,
          journalattachments, nextEntryID, pc, req, loc, resp,
          journal_event_logs, notification, password_history>>

db == <<chartofaccounts, journalentries, journalentrylines, accountledger,
        journalattachments, nextEntryID>>

-----------------------------------------------------------------------------
(* Bounds of the model *)

MaxEntries == 2
NumProcs == 2
MaxFiles == 1                 \* attachment records an entry gets at most
MaxHistory == 7               \* rows of password_history at most

Procs == 1..NumProcs
EntryIDs == 1..MaxEntries

NULL == "NULL"
NoDate == 0                   \* an entry_date form field that was not sent
NoReason == <<>>              \* RejectionReason of an entry that has none
NotNotified == "none"         \* no notification was attempted

Users == {"u1", "u2", "u3"}
RoleName(u) ==
    CASE u = "u1" -> "Accountant"
      [] u = "u2" -> "Manager"
      [] u = "u3" -> "Administrator"

\* the users that submit entries
Creators == {"u1", "u2"}

Dates == {1, 2}

ExistingAccounts == {1, 2}
UnknownAccount == 3

InitialBalance == 500

-----------------------------------------------------------------------------
(* Sequence helpers *)

RECURSIVE Count(_, _)
Count(s, x) ==
    IF s = <<>> THEN 0 ELSE (IF Head(s) = x THEN 1 ELSE 0) + Count(Tail(s), x)

RemoveKey(f, k) == [x \in DOMAIN f \ {k} |-> f[x]]

-----------------------------------------------------------------------------
(* Responses *)

\* the payload of a response that carries none: no entry, no ledger rows
NoBody == [status |-> NULL, lines |-> <<>>, rows |-> <<>>]

Response(code, detail) ==
    [code |-> code, detail |-> detail, total_debit |-> 0, total_credit |-> 0,
     body |-> NoBody]

MismatchResponse(td, tc) ==
    [code |-> 400, detail |-> "debits_must_equal_credits",
     total_debit |-> td, total_credit |-> tc, body |-> NoBody]

NoResponse == Response(0, "none")

NoEntryData == [Status |-> NULL, EntryDate |-> NoDate, CreatedByUserID |-> NULL]

NoLocals ==
    [entry_data |-> NoEntryData, lines_result |-> <<>>, i |-> 0,
     current_balance |-> 0, normal_side |-> NULL]

\* a ChartOfAccountsUpdate: the fields that were sent, and their values
AccountUpdate(fields, normal_side, initial_balance, is_active) ==
    [fields |-> fields, normal_side |-> normal_side,
     initial_balance |-> initial_balance, is_active |-> is_active,
     account_number |-> NULL, account_name |-> NULL]

NoAccountUpdate == AccountUpdate({}, NULL, 0, TRUE)

Request(op, user, id, lines_given, lines, entry_date, reason) ==
    [op |-> op, user |-> user, id |-> id, lines_given |-> lines_given,
     lines |-> lines, entry_date |-> entry_date, reason |-> reason,
     account_update |-> NoAccountUpdate,
     start_date |-> NoDate, end_date |-> NoDate,
     new_password |-> NULL, check_history |-> TRUE]

\* a request to one of the handlers of the chart of accounts
AccountRequest(op, user, account_id, account_update) ==
    [Request(op, user, account_id, FALSE, <<>>, NoDate, <<>>)
        EXCEPT !.account_update = account_update]

NoRequest == Request("none", NULL, 0, FALSE, <<>>, NoDate, <<>>)

-----------------------------------------------------------------------------
(* The line validation of create_journal_entry and update_journal_entry *)

\* the keys every line must have
LineKeys == {"account_id", "type", "amount"}

\* the decimals an amount is written with when nothing else is said: "200.00"
TwoDecimals == 2

\* A submitted line: the JSON object's keys and the values under them; the
\* amount is a string of digits, `scale` of them after the point.
LineScaled(a, t, m, scale) ==
    [keys |-> LineKeys, account_id |-> a, type |-> t, amount |-> m, scale |-> scale]

Line(a, t, m) == LineScaled(a, t, m, TwoDecimals)

LineWithout(key, a, t, m) ==
    [keys |-> LineKeys \ {key},
     account_id |-> a, type |-> t, amount |-> m, scale |-> TwoDecimals]

HasAllKeys(line) == \A k \in LineKeys : k \in line.keys

\* ValidateLoop without its check that the amount is greater than zero
RECURSIVE ValidateLoopAnyAmount(_, _, _, _)
ValidateLoopAnyAmount(lines_data, k, total_debit, total_credit) ==
    IF k > Len(lines_data)
    THEN IF total_debit # total_credit
         THEN MismatchResponse(total_debit, total_credit)
         ELSE [code |-> 200, detail |-> "valid",
               total_debit |-> total_debit, total_credit |-> total_credit,
               body |-> NoBody]
    ELSE LET line == lines_data[k] IN
         IF ~HasAllKeys(line)
         THEN Response(400, "line_must_have_account_type_amount")
         ELSE IF line.type = "Debit"
         THEN ValidateLoopAnyAmount(lines_data, k + 1, total_debit + line.amount, total_credit)
         ELSE IF line.type = "Credit"
         THEN ValidateLoopAnyAmount(lines_data, k + 1, total_debit, total_credit + line.amount)
         ELSE Response(400, "type_must_be_debit_or_credit")

\* ValidateLoop without its comparison of the two totals
RECURSIVE ValidateLoopNoTotals(_, _, _, _)
ValidateLoopNoTotals(lines_data, k, total_debit, total_credit) ==
    IF k > Len(lines_data)
    THEN [code |-> 200, detail |-> "valid",
          total_debit |-> total_debit, total_credit |-> total_credit,
          body |-> NoBody]
    ELSE LET line == lines_data[k] IN
         IF ~HasAllKeys(line)
         THEN Response(400, "line_must_have_account_type_amount")
         ELSE IF line.amount <= 0
         THEN Response(400, "amount_must_be_greater_than_zero")
         ELSE IF line.type = "Debit"
         THEN ValidateLoopNoTotals(lines_data, k + 1, total_debit + line.amount, total_credit)
         ELSE IF line.type = "Credit"
         THEN ValidateLoopNoTotals(lines_data, k + 1, total_debit, total_credit + line.amount)
         ELSE Response(400, "type_must_be_debit_or_credit")

\* The for-loop over lines_data: the first offending line decides the error;
\* the totals are compared only after every line passed.
RECURSIVE ValidateLoop(_, _, _, _)
ValidateLoop(lines_data, k, total_debit, total_credit) ==
    IF k > Len(lines_data)
    THEN IF total_debit # total_credit
         THEN MismatchResponse(total_debit, total_credit)
         ELSE [code |-> 200, detail |-> "valid",
               total_debit |-> total_debit, total_credit |-> total_credit,
               body |-> NoBody]
    ELSE LET line == lines_data[k] IN
         IF ~HasAllKeys(line)
         THEN Response(400, "line_must_have_account_type_amount")
         ELSE IF line.amount <= 0
         THEN Response(400, "amount_must_be_greater_than_zero")
         ELSE IF line.type = "Debit"
         THEN ValidateLoop(lines_data, k + 1, total_debit + line.amount, total_credit)
         ELSE IF line.type = "Credit"
         THEN ValidateLoop(lines_data, k + 1, total_debit, total_credit + line.amount)
         ELSE Response(400, "type_must_be_debit_or_credit")

ValidateLines(lines_data) ==
    IF Len(lines_data) < 2
    THEN Response(400, "at_least_two_lines")
    ELSE ValidateLoop(lines_data, 1, 0, 0)

\* lines_insert: the rows built from the submitted lines
LinesInsert(journal_entry_id, lines_data) ==
    [k \in 1..Len(lines_data) |->
        [JournalEntryID |-> journal_entry_id,
         AccountID |-> lines_data[k].account_id,
         Type |-> lines_data[k].type,
         Amount |-> lines_data[k].amount]]

\* journalentrylines.AccountID references chartofaccounts: the bulk insert is
\* one statement and fails as a whole when a row names no account.
ForeignKeysHold(rows) ==
    \A k \in 1..Len(rows) : rows[k].AccountID \in DOMAIN chartofaccounts

LinesOf(journal_entry_id) ==
    SelectSeq(journalentrylines, LAMBDA r : r.JournalEntryID = journal_entry_id)

\* LinesNotOf with the lines of the entry left in the table
LinesNotOfKeepingAll(journal_entry_id) == journalentrylines

LinesNotOf(journal_entry_id) ==
    SelectSeq(journalentrylines, LAMBDA r : r.JournalEntryID # journal_entry_id)

AttachmentsOf(journal_entry_id) ==
    SelectSeq(journalattachments, LAMBDA r : r.JournalEntryID = journal_entry_id)

AttachmentsNotOf(journal_entry_id) ==
    SelectSeq(journalattachments, LAMBDA r : r.JournalEntryID # journal_entry_id)

\* attachment_insert, for each of n files that were stored
AttachmentInsert(journal_entry_id, user, n) ==
    [k \in 1..n |-> [JournalEntryID |-> journal_entry_id, UploadedByUserID |-> user]]

PostingsOf(journal_entry_id) ==
    SelectSeq(accountledger, LAMBDA r : r.JournalEntryID = journal_entry_id)

-----------------------------------------------------------------------------
(* The requests the model sends *)

\* Line sets a client submits: well-formed ones and one for every rule of the
\* validation, plus a line that names no account.
SubmittedLineSets ==
    { <<Line(1, "Debit", 200), Line(2, "Credit", 200)>>,
      <<Line(1, "Credit", 200), Line(2, "Debit", 200)>>,
      <<Line(1, "Debit", 100), Line(1, "Debit", 100), Line(2, "Credit", 200)>>,
      <<Line(1, "Debit", 200), Line(2, "Credit", 100)>>,
      <<Line(1, "Debit", 100), Line(2, "Debit", 100)>>,
      <<Line(1, "Debit", 200)>>,
      <<>>,
      <<Line(1, "Debit", 200), LineWithout("amount", 2, "Credit", 0)>>,
      <<Line(1, "Debit", 0), Line(2, "Credit", 0)>>,
      <<Line(1, "Debit", 200), Line(2, "Other", 200)>>,
      <<Line(UnknownAccount, "Debit", 200), Line(2, "Credit", 200)>> }

\* Rejection reasons, as character sequences: too short, too short once
\* stripped, and long enough.
Reasons ==
    { <<"o", "k">>,
      <<" ", " ", "o", "k", " ", " ">>,
      <<"w", "r", "o", "n", "g">> }

MinReasonLength == 5

RECURSIVE LStrip(_)
LStrip(s) == IF s # <<>> /\ Head(s) = " " THEN LStrip(Tail(s)) ELSE s

RECURSIVE RStrip(_)
RStrip(s) ==
    IF s # <<>> /\ s[Len(s)] = " " THEN RStrip(SubSeq(s, 1, Len(s) - 1)) ELSE s

Strip(s) == RStrip(LStrip(s))

-----------------------------------------------------------------------------
(* The state after deployment: the chart of accounts holds a Debit-normal   *)
(* and a Credit-normal account, the journal and the ledger are empty.       *)

InitialAccounts ==
    [a \in ExistingAccounts |->
        [AccountNumber |-> IF a = 1 THEN "1000" ELSE "2000",
         AccountName |-> IF a = 1 THEN "Cash" ELSE "Payables",
         NormalSide |-> IF a = 1 THEN "Debit" ELSE "Credit",
         Balance |-> InitialBalance,
         IsActive |-> TRUE,
         DateCreated |-> a]]

Idle ==
    /\ pc = [p \in Procs |-> "idle"]
    /\ req = [p \in Procs |-> NoRequest]
    /\ loc = [p \in Procs |-> NoLocals]
    /\ resp = [p \in Procs |-> NoResponse]
    /\ journal_event_logs = [p \in Procs |-> << >>]
    /\ notification = [p \in Procs |-> NotNotified]
    /\ password_history = << >>

Init ==
    /\ chartofaccounts = InitialAccounts
    /\ journalentries = << >>
    /\ journalentrylines = << >>
    /\ accountledger = << >>
    /\ journalattachments = << >>
    /\ nextEntryID = 1
    /\ Idle

-----------------------------------------------------------------------------
(* How a handler step ends *)

\* the response is ready, the locals die
Done(p, response) ==
    /\ pc' = [pc EXCEPT ![p] = "done"]
    /\ resp' = [resp EXCEPT ![p] = response]
    /\ loc' = [loc EXCEPT ![p] = NoLocals]

\* the end of a step of a handler of the journal or of the chart of accounts,
\* none of which has a statement on password_history
Finish(p, response) ==
    /\ Done(p, response)
    /\ UNCHANGED password_history

\* the handler returns (or raises) without having logged an event or notified
\* anyone in this step
Return(p, response) ==
    /\ Finish(p, response)
    /\ UNCHANGED <<journal_event_logs, notification>>

\* the response is sent; the slot is free for the next request
Respond(p) ==
    /\ pc[p] = "done"
    /\ pc' = [pc EXCEPT ![p] = "idle"]
    /\ req' = [req EXCEPT ![p] = NoRequest]
    /\ resp' = [resp EXCEPT ![p] = NoResponse]
    /\ journal_event_logs' = [journal_event_logs EXCEPT ![p] = << >>]
    /\ notification' = [notification EXCEPT ![p] = NotNotified]
    /\ UNCHANGED <<db, loc, password_history>>

\* the handler goes on to its next database call
Goto(p, label, locals) ==
    /\ pc' = [pc EXCEPT ![p] = label]
    /\ resp' = [resp EXCEPT ![p] = NoResponse]
    /\ loc' = [loc EXCEPT ![p] = locals]
    /\ UNCHANGED <<journal_event_logs, notification, password_history>>

\* select(...).single() on a missing row: the handler's 404 branch, or the
\* client library's error for "no rows", which the handler turns into a 500
NotFoundResponses == {Response(404, "not_found"), Response(500, "server_error")}

\* str(line.get("Amount")): the numeric column arrives as a JSON number with
\* its decimals, which the client library parses into a float; str() of a
\* float with a whole value writes one decimal, "200.0"
FloatStrScale == 1

\* the lines of get_journal_entry's result, in the order of the table
FormatLines(rows) ==
    [k \in 1..Len(rows) |->
        [account_id |-> rows[k].AccountID, type |-> rows[k].Type,
         amount |-> rows[k].Amount, scale |-> FloatStrScale]]

\* get_journal_entry, which also ends create, approve, reject and update:
\* the entry and its lines as `entries` and `lines_table` hold them
GetJournalEntry(entries, lines_table, journal_entry_id) ==
    IF journal_entry_id \in DOMAIN entries
    THEN {[Response(200, "ok") EXCEPT
              !.body.status = entries[journal_entry_id].Status,
              !.body.lines =
                  FormatLines(SelectSeq(lines_table,
                      LAMBDA r : r.JournalEntryID = journal_entry_id))]}
    ELSE NotFoundResponses

\* LogEntry with UPDATE as the action type of every event
LogEntryAsUpdate(user, action_type, record_id) ==
    [UserID |-> user, ActionType |-> "UPDATE", RecordID |-> record_id]

\* log_entry: the row a handler inserts into journal_event_logs
LogEntry(user, action_type, record_id) ==
    [UserID |-> user, ActionType |-> action_type, RecordID |-> record_id]

\* journal_event_logs.insert(log_entry)
InsertLog(logs, log_entry) == Append(logs, log_entry)

\* the insert of the request's log entry
LogEvent(p, action_type) ==
    journal_event_logs' =
        [journal_event_logs EXCEPT
            ![p] = InsertLog(@, LogEntry(req[p].user, action_type, req[p].id))]

\* the end of approve, reject, update and delete: the log insert, then the
\* response
LogAndFinish(p, action_type, response) ==
    /\ LogEvent(p, action_type)
    /\ Finish(p, response)
    /\ UNCHANGED notification

-----------------------------------------------------------------------------
(* create_journal_entry *)

\* entry_insert: the row of a new entry
PendingEntry(entry_date, user) ==
    [Status |-> "Pending", EntryDate |-> entry_date, CreatedByUserID |-> user,
     ApprovedByUserID |-> NULL, ApprovalDate |-> NULL, RejectionReason |-> NoReason]

\* validation, then the insert into journalentries; the client is one of
\* `users` and sends one of `dates` and one of `line_sets`
CreateBeginWith(p, users, dates, line_sets) ==
    /\ pc[p] = "idle"
    /\ \E u \in users, d \in dates, ls \in line_sets :
         LET v == ValidateLines(ls) IN
            IF v.code # 200
            THEN /\ req' = [req EXCEPT ![p] = Request("create", u, 0, TRUE, ls, d, <<>>)]
                 /\ Return(p, v)
                 /\ UNCHANGED db
            ELSE /\ nextEntryID <= MaxEntries
                 /\ journalentries' = journalentries @@ (nextEntryID :> PendingEntry(d, u))
                 /\ nextEntryID' = nextEntryID + 1
                 /\ req' = [req EXCEPT ![p] = Request("create", u, nextEntryID, TRUE, ls, d, <<>>)]
                 /\ Goto(p, "create_lines", NoLocals)
                 /\ UNCHANGED <<journalattachments, chartofaccounts, journalentrylines, accountledger>>

CreateBegin(p) == CreateBeginWith(p, Creators, Dates, SubmittedLineSets)

\* the bulk insert into journalentrylines
CreateInsertLines(p) ==
    /\ pc[p] = "create_lines"
    /\ LET rows == LinesInsert(req[p].id, req[p].lines) IN
       IF ForeignKeysHold(rows) /\ req[p].id \in DOMAIN journalentries
       THEN /\ journalentrylines' = journalentrylines \o rows
            /\ Goto(p, "create_files", NoLocals)
       ELSE /\ Return(p, Response(500, "server_error"))
            /\ UNCHANGED journalentrylines
    /\ UNCHANGED <<journalattachments, chartofaccounts, journalentries, accountledger, nextEntryID, req>>

\* the files sent with a request: an attachment record is inserted for each
\* file that was stored (a file that fails is skipped, the request goes on);
\* n is the number of records inserted, one of file_counts
StoreFiles(p, file_counts) ==
    \E n \in file_counts :
        /\ Len(AttachmentsOf(req[p].id)) + n <= MaxFiles
        /\ journalattachments' =
               journalattachments \o AttachmentInsert(req[p].id, req[p].user, n)

\* How notifying the managers goes: every manager got the email; the lookup
\* of the Manager role raised; the lookup of a manager's email raised; the
\* sending failed.
NotifyOutcomes == {"sent", "role_lookup_failed", "email_lookup_failed", "send_failed"}

\* NotifyManagers with what went wrong handed on to the handler
NotifyManagersRaising(outcome) ==
    IF outcome = "sent" THEN NoResponse ELSE Response(500, "server_error")

\* What the notification block hands to the handler: nothing, whatever went
\* wrong in it; its "except Exception" only logs.
NotifyManagers(outcome) == NoResponse

\* the attachments, then log, notification and the final read
CreateEndWith(p, file_counts, outcomes) ==
    /\ pc[p] = "create_files"
    /\ StoreFiles(p, file_counts)
    /\ LogEvent(p, "CREATE")
    /\ \E outcome \in outcomes :
          /\ notification' = [notification EXCEPT ![p] = outcome]
          /\ IF NotifyManagers(outcome) # NoResponse
             THEN Finish(p, NotifyManagers(outcome))
             ELSE \E r \in GetJournalEntry(journalentries, journalentrylines, req[p].id) :
                      Finish(p, r)
    /\ UNCHANGED <<chartofaccounts, journalentries, journalentrylines, accountledger,
                   nextEntryID, req>>

\* a submission whose notification goes through
CreateFilesWith(p, file_counts) == CreateEndWith(p, file_counts, {"sent"})

\* a submission without files
CreateFiles(p) == CreateFilesWith(p, {0})

\* get_journal_entry, called by a client
ReadJournalEntry(p) ==
    /\ pc[p] = "idle"
    /\ \E u \in Users, e \in EntryIDs :
         /\ req' = [req EXCEPT ![p] = Request("get", u, e, FALSE, <<>>, NoDate, <<>>)]
         /\ \E r \in GetJournalEntry(journalentries, journalentrylines, e) :
               Return(p, r)
    /\ UNCHANGED db

-----------------------------------------------------------------------------
(* approve_journal_entry *)

\* the ledger_entry row built for a line
LedgerEntry(line, journal_entry_id, entry_data) ==
    [AccountID |-> line.AccountID,
     JournalEntryID |-> journal_entry_id,
     TransactionDate |-> entry_data.EntryDate,
     Debit |-> IF line.Type = "Debit" THEN line.Amount ELSE 0,
     Credit |-> IF line.Type = "Credit" THEN line.Amount ELSE 0]

\* NewBalance with the Credit line on a Debit-normal account added instead of
\* subtracted
NewBalanceCreditAdds(line_type, normal_side, current_balance, amount) ==
    IF line_type = "Debit"
    THEN IF normal_side = "Debit"
         THEN current_balance + amount
         ELSE current_balance - amount
    ELSE current_balance + amount

\* NewBalance with a Debit line added and a Credit line subtracted whatever
\* the normal side of the account
NewBalanceAsDebitNormal(line_type, normal_side, current_balance, amount) ==
    IF line_type = "Debit"
    THEN current_balance + amount
    ELSE current_balance - amount

\* new_balance from the line type and the account's normal side
NewBalance(line_type, normal_side, current_balance, amount) ==
    IF line_type = "Debit"
    THEN IF normal_side = "Debit"
         THEN current_balance + amount
         ELSE current_balance - amount
    ELSE IF normal_side = "Credit"
         THEN current_balance + amount
         ELSE current_balance - amount

\* the fields of a journalentries row a handler reads back from entry_data
EntryData(row) ==
    [Status |-> row.Status, EntryDate |-> row.EntryDate,
     CreatedByUserID |-> row.CreatedByUserID]

\* update(...).eq("JournalEntryID", id): every row with that id, if any
UpdateEntry(entries, journal_entry_id, update_data) ==
    [e \in DOMAIN entries |->
        IF e = journal_entry_id
        THEN [f \in DOMAIN entries[e] |->
                 IF f \in DOMAIN update_data THEN update_data[f] ELSE entries[e][f]]
        ELSE entries[e]]

\* MayApprove with the Accountant role let through as well
MayApproveWithAccountant(user_role) ==
    user_role \in {"Manager", "Administrator", "Accountant"}

\* the role check of approve and reject
MayApprove(user_role) == user_role \in {"Manager", "Administrator"}

\* ApproveRefusal without its check for an entry that is already approved
ApproveRefusalRejectedOnly(entry_status) ==
    IF entry_status = "Rejected"
    THEN Response(400, "cannot_approve_rejected")
    ELSE NoResponse

\* the status checks of approve: the refusal, or NoResponse to go on
ApproveRefusal(entry_status) ==
    IF entry_status = "Approved"
    THEN Response(400, "already_approved")
    ELSE IF entry_status = "Rejected"
    THEN Response(400, "cannot_approve_rejected")
    ELSE NoResponse

\* role check, fetch of the entry, status checks
ApproveBegin(p) ==
    /\ pc[p] = "idle"
    /\ \E u \in Users, e \in EntryIDs :
         /\ req' = [req EXCEPT ![p] = Request("approve", u, e, FALSE, <<>>, NoDate, <<>>)]
         /\ IF ~MayApprove(RoleName(u))
            THEN Return(p, Response(403, "forbidden"))
            ELSE IF e \notin DOMAIN journalentries
            THEN \E r \in NotFoundResponses : Return(p, r)
            ELSE IF ApproveRefusal(journalentries[e].Status) # NoResponse
            THEN Return(p, ApproveRefusal(journalentries[e].Status))
            ELSE Goto(p, "approve_update",
                      [NoLocals EXCEPT !.entry_data = EntryData(journalentries[e])])
    /\ UNCHANGED db

\* update of Status, ApprovedByUserID and ApprovalDate
ApproveUpdateStatus(p) ==
    /\ pc[p] = "approve_update"
    /\ journalentries' = UpdateEntry(journalentries, req[p].id,
            [Status |-> "Approved", ApprovedByUserID |-> req[p].user,
             ApprovalDate |-> "now"])
    /\ Goto(p, "approve_lines", loc[p])
    /\ UNCHANGED <<journalattachments, chartofaccounts, journalentrylines, accountledger, nextEntryID, req>>

\* the end of approve: log insert and final read
ApproveEnd(p, entries) ==
    \E r \in GetJournalEntry(entries, journalentrylines, req[p].id) :
        LogAndFinish(p, "APPROVE", r)

\* select of the entry's lines
ApproveSelectLines(p) ==
    /\ pc[p] = "approve_lines"
    /\ LET lines_result == LinesOf(req[p].id) IN
       IF lines_result = <<>>
       THEN ApproveEnd(p, journalentries)
       ELSE Goto(p, "approve_insert",
                 [loc[p] EXCEPT !.lines_result = lines_result, !.i = 1])
    /\ UNCHANGED <<db, req>>

\* InsertPosting with the rows of the same account overwritten
InsertPostingOverAccount(ledger, ledger_entry) ==
    Append(SelectSeq(ledger, LAMBDA r : r.AccountID # ledger_entry.AccountID),
           ledger_entry)

\* accountledger.insert(ledger_entry)
InsertPosting(ledger, ledger_entry) == Append(ledger, ledger_entry)

\* insert of the ledger row of line i
ApproveInsertLedger(p) ==
    /\ pc[p] = "approve_insert"
    /\ accountledger' = InsertPosting(accountledger,
            LedgerEntry(loc[p].lines_result[loc[p].i], req[p].id, loc[p].entry_data))
    /\ Goto(p, "approve_read", loc[p])
    /\ UNCHANGED <<journalattachments, chartofaccounts, journalentries, journalentrylines, nextEntryID, req>>

\* select of Balance and NormalSide of the line's account
ApproveReadAccount(p) ==
    /\ pc[p] = "approve_read"
    /\ LET account_id == loc[p].lines_result[loc[p].i].AccountID IN
       IF account_id \in DOMAIN chartofaccounts
       THEN Goto(p, "approve_write",
                 [loc[p] EXCEPT
                    !.current_balance = chartofaccounts[account_id].Balance,
                    !.normal_side = chartofaccounts[account_id].NormalSide])
       ELSE Return(p, Response(500, "server_error"))
    /\ UNCHANGED <<db, req>>

\* update of the account's Balance, then the next line
ApproveWriteBalance(p) ==
    /\ pc[p] = "approve_write"
    /\ LET line == loc[p].lines_result[loc[p].i]
           new_balance == NewBalance(line.Type, loc[p].normal_side,
                                     loc[p].current_balance, line.Amount)
       IN /\ chartofaccounts' =
                [chartofaccounts EXCEPT ![line.AccountID].Balance = new_balance]
          /\ IF loc[p].i < Len(loc[p].lines_result)
             THEN Goto(p, "approve_insert", [loc[p] EXCEPT !.i = loc[p].i + 1])
             ELSE ApproveEnd(p, journalentries)
    /\ UNCHANGED <<journalattachments, journalentries, journalentrylines, accountledger, nextEntryID, req>>

-----------------------------------------------------------------------------
(* reject_journal_entry *)

\* the status checks of reject: the refusal, or NoResponse to go on
RejectRefusal(entry_status) ==
    IF entry_status = "Approved"
    THEN Response(400, "cannot_reject_approved")
    ELSE IF entry_status = "Rejected"
    THEN Response(400, "already_rejected")
    ELSE NoResponse

\* ReasonTooShort with the length taken of the reason as sent
ReasonTooShortAsSent(rejection_reason) ==
    rejection_reason = <<>> \/ Len(rejection_reason) < MinReasonLength

\* the check of the rejection reason
ReasonTooShort(rejection_reason) ==
    rejection_reason = <<>> \/ Len(Strip(rejection_reason)) < MinReasonLength

\* role check, fetch of the entry, status checks, check of the reason
RejectBegin(p) ==
    /\ pc[p] = "idle"
    /\ \E u \in Users, e \in EntryIDs, rejection_reason \in Reasons :
         /\ req' = [req EXCEPT ![p] =
                       Request("reject", u, e, FALSE, <<>>, NoDate, rejection_reason)]
         /\ IF ~MayApprove(RoleName(u))
            THEN Return(p, Response(403, "forbidden"))
            ELSE IF e \notin DOMAIN journalentries
            THEN \E r \in NotFoundResponses : Return(p, r)
            ELSE IF RejectRefusal(journalentries[e].Status) # NoResponse
            THEN Return(p, RejectRefusal(journalentries[e].Status))
            ELSE IF ReasonTooShort(rejection_reason)
            THEN Return(p, Response(400, "reason_too_short"))
            ELSE Goto(p, "reject_update",
                      [NoLocals EXCEPT !.entry_data = EntryData(journalentries[e])])
    /\ UNCHANGED db

\* update of Status, ApprovedByUserID, ApprovalDate and RejectionReason, then
\* log insert and final read
RejectUpdateStatus(p) ==
    /\ pc[p] = "reject_update"
    /\ journalentries' = UpdateEntry(journalentries, req[p].id,
            [Status |-> "Rejected", ApprovedByUserID |-> req[p].user,
             ApprovalDate |-> "now", RejectionReason |-> req[p].reason])
    /\ \E r \in GetJournalEntry(journalentries', journalentrylines, req[p].id) :
          LogAndFinish(p, "REJECT", r)
    /\ UNCHANGED <<journalattachments, chartofaccounts, journalentrylines, accountledger, nextEntryID, req>>

-----------------------------------------------------------------------------
(* update_journal_entry *)

\* Line sets sent with an edit: two well-formed ones, an unbalanced one, a
\* single line, and one that names no account.
EditedLineSets ==
    { <<Line(1, "Debit", 200), Line(2, "Credit", 200)>>,
      <<Line(1, "Credit", 200), Line(2, "Debit", 200)>>,
      <<Line(1, "Debit", 200), Line(2, "Credit", 100)>>,
      <<Line(1, "Debit", 200)>>,
      <<Line(UnknownAccount, "Debit", 200), Line(2, "Credit", 200)>> }

\* NotPending with every status let through
NotPendingNever(entry_status) == FALSE

\* the status check of update and delete
NotPending(entry_status) == entry_status # "Pending"

\* MayModify with the Manager let through as well
MayModifyWithManager(entry, user) ==
    entry.CreatedByUserID = user \/ RoleName(user) \in {"Administrator", "Manager"}

\* is_creator or is_admin, of update and delete
MayModify(entry, user) ==
    entry.CreatedByUserID = user \/ RoleName(user) = "Administrator"

\* the end of update: on to the files, the log insert and the final read
UpdateEnd(p) == Goto(p, "update_files", NoLocals)

\* what follows the update of the header: the validation of the lines, if
\* lines were sent, up to the next database call
UpdateLines(p) ==
    IF ~req'[p].lines_given
    THEN UpdateEnd(p)
    ELSE LET v == ValidateLines(req'[p].lines) IN
         IF v.code # 200
         THEN Return(p, v)
         ELSE Goto(p, "update_delete", loc[p])

\* role lookup, fetch of the entry, permission and status checks; when no
\* header field was sent, the validation of the lines as well; the client is
\* one of `users` and sends one of `dates` and, if any, one of `line_sets`
UpdateBeginWith(p, users, dates, line_sets) ==
    /\ pc[p] = "idle"
    /\ \E u \in users, e \in EntryIDs, entry_date \in dates,
          lines_given \in BOOLEAN :
       \E ls \in IF lines_given THEN line_sets ELSE {<<>>} :
         /\ req' = [req EXCEPT ![p] =
                       Request("update", u, e, lines_given, ls, entry_date, <<>>)]
         /\ IF e \notin DOMAIN journalentries
            THEN \E r \in NotFoundResponses : Return(p, r)
            ELSE IF ~MayModify(journalentries[e], u)
            THEN Return(p, Response(403, "forbidden"))
            ELSE IF NotPending(journalentries[e].Status)
            THEN Return(p, Response(400, "not_pending"))
            ELSE IF entry_date # NoDate
            THEN Goto(p, "update_header", NoLocals)
            ELSE UpdateLines(p)
    /\ UNCHANGED db

UpdateBegin(p) == UpdateBeginWith(p, Users, {NoDate} \cup Dates, EditedLineSets)

\* update of the header fields sent, then the validation of the lines
UpdateHeader(p) ==
    /\ pc[p] = "update_header"
    /\ journalentries' = UpdateEntry(journalentries, req[p].id,
                                     [EntryDate |-> req[p].entry_date])
    /\ req' = req
    /\ UpdateLines(p)
    /\ UNCHANGED <<journalattachments, chartofaccounts, journalentrylines, accountledger, nextEntryID>>

\* delete of the entry's existing lines
UpdateDeleteLines(p) ==
    /\ pc[p] = "update_delete"
    /\ journalentrylines' = LinesNotOf(req[p].id)
    /\ Goto(p, "update_insert", loc[p])
    /\ UNCHANGED <<journalattachments, chartofaccounts, journalentries, accountledger, nextEntryID, req>>

\* bulk insert of the new lines
UpdateInsertLines(p) ==
    /\ pc[p] = "update_insert"
    /\ LET rows == LinesInsert(req[p].id, req[p].lines) IN
       IF ForeignKeysHold(rows) /\ req[p].id \in DOMAIN journalentries
       THEN /\ journalentrylines' = journalentrylines \o rows
            /\ UpdateEnd(p)
       ELSE /\ Return(p, Response(500, "server_error"))
            /\ UNCHANGED journalentrylines
    /\ UNCHANGED <<journalattachments, chartofaccounts, journalentries, accountledger, nextEntryID, req>>

\* the attachments, then the log insert and the final read
UpdateFilesWith(p, file_counts) ==
    /\ pc[p] = "update_files"
    /\ StoreFiles(p, file_counts)
    /\ \E r \in GetJournalEntry(journalentries, journalentrylines, req[p].id) :
          LogAndFinish(p, "UPDATE", r)
    /\ UNCHANGED <<chartofaccounts, journalentries, journalentrylines, accountledger,
                   nextEntryID, req>>

\* an edit without files
UpdateFiles(p) == UpdateFilesWith(p, {0})

-----------------------------------------------------------------------------
(* delete_journal_entry *)

\* role lookup, fetch of the entry, permission and status checks
DeleteBegin(p) ==
    /\ pc[p] = "idle"
    /\ \E u \in Users, e \in EntryIDs :
         /\ req' = [req EXCEPT ![p] = Request("delete", u, e, FALSE, <<>>, NoDate, <<>>)]
         /\ IF e \notin DOMAIN journalentries
            THEN \E r \in NotFoundResponses : Return(p, r)
            ELSE IF ~MayModify(journalentries[e], u)
            THEN Return(p, Response(403, "forbidden"))
            ELSE IF NotPending(journalentries[e].Status)
            THEN Return(p, Response(400, "not_pending"))
            ELSE Goto(p, "delete_attachments",
                      [NoLocals EXCEPT !.entry_data = EntryData(journalentries[e])])
    /\ UNCHANGED db

\* delete of the entry's attachment records
DeleteAttachments(p) ==
    /\ pc[p] = "delete_attachments"
    /\ journalattachments' = AttachmentsNotOf(req[p].id)
    /\ Goto(p, "delete_lines", loc[p])
    /\ UNCHANGED <<chartofaccounts, journalentries, journalentrylines, accountledger,
                   nextEntryID, req>>

\* delete of the entry's lines
DeleteLines(p) ==
    /\ pc[p] = "delete_lines"
    /\ journalentrylines' = LinesNotOf(req[p].id)
    /\ Goto(p, "delete_entry", loc[p])
    /\ UNCHANGED <<journalattachments, chartofaccounts, journalentries, accountledger, nextEntryID, req>>

\* delete of the entry, then the log insert
DeleteEntry(p) ==
    /\ pc[p] = "delete_entry"
    /\ journalentries' = RemoveKey(journalentries, req[p].id)
    /\ LogAndFinish(p, "DELETE", Response(200, "deleted"))
    /\ UNCHANGED <<journalattachments, chartofaccounts, journalentrylines, accountledger, nextEntryID, req>>

-----------------------------------------------------------------------------
(* The handlers of the chart of accounts (routes/accounts.py) *)

AccountIDs == ExistingAccounts \cup {UnknownAccount}

\* The updates an Administrator sends: nothing, a balance of zero, the
\* active flag either way, the other normal side, and a normal side that is
\* neither Debit nor Credit.
AccountUpdates ==
    { NoAccountUpdate,
      AccountUpdate({"initial_balance"}, NULL, 0, TRUE),
      AccountUpdate({"is_active"}, NULL, 0, FALSE),
      AccountUpdate({"is_active"}, NULL, 0, TRUE),
      AccountUpdate({"normal_side"}, "Credit", 0, TRUE),
      AccountUpdate({"normal_side"}, "Other", 0, TRUE) }

\* a user whose profile row has 0 as its RoleID
NoRoleUser == "u0"

\* table roles, RoleID -> RoleName, as init_roles fills it
Roles == <<"Administrator", "Manager", "Accountant">>

\* RoleID of the profile row of a user
ProfileRoleID(u) ==
    CASE u = "u3" -> 1
      [] u = "u2" -> 2
      [] u = "u1" -> 3
      [] u = NoRoleUser -> 0

\* get_current_user_from_token: the role it attaches to the profile, fetched
\* "if role_id"
CurrentUserRole(u) ==
    IF ProfileRoleID(u) # 0 THEN Roles[ProfileRoleID(u)] ELSE NULL

\* require_admin: a user with a role other than Administrator is refused
RequireAdmin(user_role) == ~(user_role # NULL /\ user_role # "Administrator")

\* the row after update(update_data)
UpdatedAccount(row, account_update) ==
    [row EXCEPT
        !.AccountNumber = IF "account_number" \in account_update.fields
                          THEN account_update.account_number ELSE @,
        !.AccountName = IF "account_name" \in account_update.fields
                        THEN account_update.account_name ELSE @,
        !.NormalSide = IF "normal_side" \in account_update.fields
                       THEN account_update.normal_side ELSE @,
        !.Balance = IF "initial_balance" \in account_update.fields
                    THEN account_update.initial_balance ELSE @,
        !.IsActive = IF "is_active" \in account_update.fields
                     THEN account_update.is_active ELSE @]

\* the accounts other than account_id that have the number
ExistingNumber(accounts, account_number, account_id) ==
    {a \in DOMAIN accounts \ {account_id} : accounts[a].AccountNumber = account_number}

\* the accounts other than account_id that have the name
ExistingName(accounts, account_name, account_id) ==
    {a \in DOMAIN accounts \ {account_id} : accounts[a].AccountName = account_name}

\* What becomes of a write that leaves two accounts with one number or one
\* name.  The handlers only look before they write; the tables are created
\* outside this code base, and whether they carry unique indexes it does not
\* say: with them the statement raises, without them it goes through.
DuplicateWriteOutcomes == {"raises", "written"}

\* the insert or update that makes `row` the row of account_id, and the
\* response the handler gives when it went through
WriteAccount(p, account_id, row, response) ==
    \E outcome \in IF \/ ExistingNumber(chartofaccounts, row.AccountNumber, account_id) # {}
                       \/ ExistingName(chartofaccounts, row.AccountName, account_id) # {}
                    THEN DuplicateWriteOutcomes
                    ELSE {"written"} :
        IF outcome = "raises"
        THEN /\ Return(p, Response(500, "server_error"))
             /\ UNCHANGED chartofaccounts
        ELSE /\ chartofaccounts' =
                    [a \in DOMAIN chartofaccounts \cup {account_id} |->
                        IF a = account_id THEN row ELSE chartofaccounts[a]]
             /\ Return(p, response)

\* update_account, once number and name are checked: the checks of the
\* other fields
UpdateAccountFields(p, account_update) ==
    IF /\ "normal_side" \in account_update.fields
       /\ account_update.normal_side \notin {"Debit", "Credit"}
    THEN Return(p, Response(400, "normal_side_must_be_debit_or_credit"))
    ELSE IF account_update.fields = {}
    THEN Return(p, Response(200, "ok"))
    ELSE Goto(p, "account_update", NoLocals)

\* update_account, once the number is checked
UpdateAccountAfterNumber(p, account_update) ==
    IF "account_name" \in account_update.fields
    THEN Goto(p, "account_check_name", NoLocals)
    ELSE UpdateAccountFields(p, account_update)

\* update_account: admin check and fetch of the account, then the checks of
\* the fields up to the next database call; the client is one of `users` and
\* sends one of `updates`
UpdateAccountBeginWith(p, users, updates) ==
    /\ pc[p] = "idle"
    /\ \E u \in users, a \in AccountIDs, account_update \in updates :
         /\ req' = [req EXCEPT ![p] = AccountRequest("update_account", u, a, account_update)]
         /\ IF ~RequireAdmin(CurrentUserRole(u))
            THEN Return(p, Response(403, "forbidden"))
            ELSE IF a \notin DOMAIN chartofaccounts
            THEN \E r \in NotFoundResponses : Return(p, r)
            ELSE IF "account_number" \in account_update.fields
            THEN Goto(p, "account_check_number", NoLocals)
            ELSE UpdateAccountAfterNumber(p, account_update)
    /\ UNCHANGED db

UpdateAccountBegin(p) == UpdateAccountBeginWith(p, Users, AccountUpdates)

\* update_account: the select of the accounts that have the new number
UpdateAccountCheckNumber(p) ==
    /\ pc[p] = "account_check_number"
    /\ IF ExistingNumber(chartofaccounts, req[p].account_update.account_number,
                         req[p].id) # {}
       THEN Return(p, Response(400, "account_number_exists"))
       ELSE UpdateAccountAfterNumber(p, req[p].account_update)
    /\ UNCHANGED <<db, req>>

\* update_account: the select of the accounts that have the new name
UpdateAccountCheckName(p) ==
    /\ pc[p] = "account_check_name"
    /\ IF ExistingName(chartofaccounts, req[p].account_update.account_name,
                       req[p].id) # {}
       THEN Return(p, Response(400, "account_name_exists"))
       ELSE UpdateAccountFields(p, req[p].account_update)
    /\ UNCHANGED <<db, req>>

\* update_account: the update of the row
UpdateAccountWrite(p) ==
    /\ pc[p] = "account_update"
    /\ WriteAccount(p, req[p].id,
                    UpdatedAccount(chartofaccounts[req[p].id], req[p].account_update),
                    Response(200, "ok"))
    /\ UNCHANGED <<journalentries, journalentrylines, accountledger,
                   journalattachments, nextEntryID, req>>

\* the accounts the chart holds at most
MaxAccounts == 4

\* the AccountID the database gives the next account: no account is ever
\* deleted, so that the ids in use are 1 up to their number
NextAccountID(accounts) == Cardinality(DOMAIN accounts) + 1

\* insert_data: the row of a new account, which is active and created
\* later than the accounts of the initial chart
NewAccount(account) ==
    [AccountNumber |-> account.account_number,
     AccountName |-> account.account_name,
     NormalSide |-> account.normal_side,
     Balance |-> account.initial_balance,
     IsActive |-> TRUE,
     DateCreated |-> 3]

\* a ChartOfAccountsCreate
AccountCreate(account_number, account_name, normal_side, initial_balance) ==
    [AccountUpdate({"account_number", "account_name", "normal_side", "initial_balance"},
                   normal_side, initial_balance, TRUE)
        EXCEPT !.account_number = account_number, !.account_name = account_name]

\* create_account: admin check, check of the normal side, and the select of
\* the accounts that have the number; the client is one of `users` and sends
\* one of `accounts`
CreateAccountBegin(p, users, accounts) ==
    /\ pc[p] = "idle"
    /\ \E u \in users, account \in accounts :
         /\ req' = [req EXCEPT ![p] = AccountRequest("create_account", u, 0, account)]
         /\ IF ~RequireAdmin(CurrentUserRole(u))
            THEN Return(p, Response(403, "forbidden"))
            ELSE IF account.normal_side \notin {"Debit", "Credit"}
            THEN Return(p, Response(400, "normal_side_must_be_debit_or_credit"))
            ELSE IF ExistingNumber(chartofaccounts, account.account_number, 0) # {}
            THEN Return(p, Response(400, "account_number_exists"))
            ELSE Goto(p, "account_create_name", NoLocals)
    /\ UNCHANGED db

\* create_account: the select of the accounts that have the name
CreateAccountCheckName(p) ==
    /\ pc[p] = "account_create_name"
    /\ IF ExistingName(chartofaccounts, req[p].account_update.account_name, 0) # {}
       THEN Return(p, Response(400, "account_name_exists"))
       ELSE Goto(p, "account_insert", NoLocals)
    /\ UNCHANGED <<db, req>>

\* create_account: the insert of the row
CreateAccountInsert(p) ==
    /\ pc[p] = "account_insert"
    /\ Cardinality(DOMAIN chartofaccounts) < MaxAccounts
    /\ LET account_id == NextAccountID(chartofaccounts)
       IN /\ WriteAccount(p, account_id, NewAccount(req[p].account_update),
                          Response(201, "created"))
          /\ req' = [req EXCEPT ![p].id =
                        IF account_id \in DOMAIN chartofaccounts' THEN account_id ELSE 0]
    /\ UNCHANGED <<journalentries, journalentrylines, accountledger,
                   journalattachments, nextEntryID>>

\* deactivate_account: admin check, fetch of the account, checks of the
\* active flag and of the balance
DeactivateBeginWith(p, users) ==
    /\ pc[p] = "idle"
    /\ \E u \in users, a \in AccountIDs :
         /\ req' = [req EXCEPT ![p] = AccountRequest("deactivate_account", u, a, NoAccountUpdate)]
         /\ IF ~RequireAdmin(CurrentUserRole(u))
            THEN Return(p, Response(403, "forbidden"))
            ELSE IF a \notin DOMAIN chartofaccounts
            THEN \E r \in NotFoundResponses : Return(p, r)
            ELSE IF ~chartofaccounts[a].IsActive
            THEN Return(p, Response(200, "already_deactivated"))
            ELSE IF chartofaccounts[a].Balance # 0
            THEN Return(p, Response(400, "non_zero_balance"))
            ELSE Goto(p, "deactivate_update", NoLocals)
    /\ UNCHANGED db

DeactivateBegin(p) == DeactivateBeginWith(p, Users)

\* deactivate_account: the update of IsActive
DeactivateWrite(p) ==
    /\ pc[p] = "deactivate_update"
    /\ chartofaccounts' = [chartofaccounts EXCEPT ![req[p].id].IsActive = FALSE]
    /\ Return(p, Response(200, "deactivated"))
    /\ UNCHANGED <<journalentries, journalentrylines, accountledger,
                   journalattachments, nextEntryID, req>>

\* the filters of the ledger query: the account, and the dates that were sent
LedgerFilter(row, account_id, start_date, end_date) ==
    /\ row.AccountID = account_id
    /\ start_date # NoDate => row.TransactionDate >= start_date
    /\ end_date # NoDate => row.TransactionDate <= end_date

\* The rows of the table with their PostTimestamp.  approve reads the clock
\* right before each insert, so that the PostTimestamp of a row is later than
\* that of every row before it in the table: the model writes it as the
\* row's position.
Stamped(ledger) ==
    [k \in 1..Len(ledger) |-> [row |-> ledger[k], PostTimestamp |-> k]]

\* one more row put in its place among rows that are in order, and none of
\* which has a later PostTimestamp
RECURSIVE InsertInOrder(_, _)
InsertInOrder(ordered, x) ==
    IF ordered = <<>>
    THEN <<x>>
    ELSE IF Head(ordered).row.TransactionDate <= x.row.TransactionDate
    THEN <<Head(ordered)>> \o InsertInOrder(Tail(ordered), x)
    ELSE <<x>> \o ordered

\* order("TransactionDate").order("PostTimestamp"), of rows in the order of
\* the table
RECURSIVE OrderRows(_)
OrderRows(stamped) ==
    IF stamped = <<>>
    THEN <<>>
    ELSE InsertInOrder(OrderRows(SubSeq(stamped, 1, Len(stamped) - 1)),
                       stamped[Len(stamped)])

\* the result of the ledger query
LedgerQuery(ledger, account_id, start_date, end_date) ==
    OrderRows(SelectSeq(Stamped(ledger),
                        LAMBDA x : LedgerFilter(x.row, account_id, start_date, end_date)))

\* post_ref of a row
PostRef(journal_entry_id) == <<"JE", journal_entry_id>>
OpeningRef == <<"Opening">>

\* RunningBalance with every account taken as Debit-normal
RunningBalanceDebitNormal(running_balance, normal_side, debit, credit) ==
    running_balance + debit - credit

\* running_balance after one more ledger row
RunningBalance(running_balance, normal_side, debit, credit) ==
    IF normal_side = "Debit"
    THEN running_balance + debit - credit
    ELSE running_balance + credit - debit

\* ledger_entries: the loop over the rows of the query
RECURSIVE LedgerEntries(_, _, _)
LedgerEntries(result, running_balance, normal_side) ==
    IF result = <<>>
    THEN <<>>
    ELSE LET entry == Head(result).row
             balance == RunningBalance(running_balance, normal_side,
                                       entry.Debit, entry.Credit)
         IN <<[post_ref |-> PostRef(entry.JournalEntryID),
               date |-> entry.TransactionDate,
               debit |-> entry.Debit,
               credit |-> entry.Credit,
               balance |-> balance,
               post_timestamp |-> Head(result).PostTimestamp]>>
            \o LedgerEntries(Tail(result), balance, normal_side)

\* ShouldShowOpening without its comparison of the creation date with end_date
ShouldShowOpeningNoEndDate(start_date, end_date, account_created_date, ledger_entries, initial_balance) ==
    IF start_date = NoDate /\ end_date = NoDate
    THEN ledger_entries # <<>> \/ initial_balance # 0
    ELSE IF start_date # NoDate /\ account_created_date < start_date
    THEN FALSE
    ELSE ledger_entries # <<>> \/ initial_balance # 0

\* should_show_opening
ShouldShowOpening(start_date, end_date, account_created_date, ledger_entries, initial_balance) ==
    IF start_date = NoDate /\ end_date = NoDate
    THEN ledger_entries # <<>> \/ initial_balance # 0
    ELSE IF start_date # NoDate /\ account_created_date < start_date
    THEN FALSE
    ELSE IF end_date # NoDate /\ account_created_date > end_date
    THEN FALSE
    ELSE ledger_entries # <<>> \/ initial_balance # 0

\* the "Opening" row
OpeningRow(account, initial_balance, normal_side) ==
    [post_ref |-> OpeningRef,
     date |-> account.DateCreated,
     debit |-> IF normal_side = "Debit" /\ initial_balance > 0
               THEN initial_balance ELSE 0,
     credit |-> IF normal_side = "Credit" /\ initial_balance > 0
                THEN initial_balance ELSE 0,
     balance |-> initial_balance,
     post_timestamp |-> account.DateCreated]

\* what get_account_ledger returns for an account: initial_balance is the
\* Balance of the account's row
AccountLedger(account, ledger, account_id, start_date, end_date) ==
    LET initial_balance == account.Balance
        normal_side == account.NormalSide
        ledger_entries ==
            LedgerEntries(LedgerQuery(ledger, account_id, start_date, end_date),
                          initial_balance, normal_side)
    IN IF ShouldShowOpening(start_date, end_date, account.DateCreated,
                            ledger_entries, initial_balance)
       THEN <<OpeningRow(account, initial_balance, normal_side)>> \o ledger_entries
       ELSE ledger_entries

\* get_account_ledger: fetch of the account and select of its ledger rows,
\* taken together since it writes nothing; the client is one of `users` and
\* sends as start_date and as end_date one of `filter_dates`
GetAccountLedgerWith(p, users, filter_dates) ==
    /\ pc[p] = "idle"
    /\ \E u \in users, a \in AccountIDs, start_date \in filter_dates,
          end_date \in filter_dates :
         /\ req' = [req EXCEPT ![p] =
                       [AccountRequest("get_account_ledger", u, a, NoAccountUpdate)
                           EXCEPT !.start_date = start_date, !.end_date = end_date]]
         /\ IF a \notin DOMAIN chartofaccounts
            THEN \E r \in NotFoundResponses : Return(p, r)
            ELSE Return(p, [Response(200, "ok") EXCEPT
                               !.body.rows =
                                   AccountLedger(chartofaccounts[a], accountledger,
                                                 a, start_date, end_date)])
    /\ UNCHANGED db

\* a read of the whole ledger of an account
GetAccountLedger(p) == GetAccountLedgerWith(p, Users, {NoDate})

-----------------------------------------------------------------------------
(* The password history (services/password_service.py) *)

HistoryLimit == 5

Passwords == {"pw1", "pw2", "pw3", "pw4", "pw5", "pw6"}

\* the passwords a user sends: the first user any of them, the second only one
PasswordsOf(u) == IF u = "u1" THEN Passwords ELSE {"pw1"}

\* hash_password: bcrypt's hash carries the salt it was made with
HashPassword(password, salt) == [salt |-> salt, digest |-> <<salt, password>>]

\* verify_password: the password hashed with the salt of password_hash is
\* password_hash
VerifyPassword(password, password_hash) ==
    HashPassword(password, password_hash.salt) = password_hash

RECURSIVE SelectUser(_, _)
\* .eq("user_id", user_id).order("created_at", desc=True)
SelectUser(history, user_id) ==
    IF history = << >> THEN << >>
    ELSE IF history[Len(history)].user_id = user_id
    THEN <<history[Len(history)]>>
            \o SelectUser(SubSeq(history, 1, Len(history) - 1), user_id)
    ELSE SelectUser(SubSeq(history, 1, Len(history) - 1), user_id)

\* .limit(limit)
Limit(result, limit) ==
    IF Len(result) <= limit THEN result ELSE SubSeq(result, 1, limit)

\* get_password_history without .limit(limit)
GetWholePasswordHistory(history, user_id, limit) == SelectUser(history, user_id)

\* get_password_history
GetPasswordHistory(history, user_id, limit) ==
    Limit(SelectUser(history, user_id), limit)

\* is_password_reused
IsPasswordReused(history, user_id, new_password, history_limit) ==
    LET password_history_ == GetPasswordHistory(history, user_id, history_limit)
    IN \E k \in 1..Len(password_history_) :
            VerifyPassword(new_password, password_history_[k].password_hash)

\* the (success, error_message) of validate_and_store_password
PasswordResult(success, error_message) ==
    Response(IF success THEN 200 ELSE 400, error_message)

PasswordRequest(user, new_password, check_history) ==
    [Request("validate_and_store_password", user, 0, FALSE, <<>>, NoDate, <<>>)
        EXCEPT !.new_password = new_password, !.check_history = check_history]

\* validate_and_store_password: the check of the history.  The callers pass
\* check_history=False for the first password of a new user only, and 5 as
\* history_limit.
ValidatePassword(p) ==
    /\ pc[p] = "idle"
    /\ \E u \in Creators, check_history \in BOOLEAN : \E new_password \in PasswordsOf(u) :
         /\ ~check_history => SelectUser(password_history, u) = << >>
         /\ req' = [req EXCEPT ![p] = PasswordRequest(u, new_password, check_history)]
         /\ IF /\ check_history
               /\ IsPasswordReused(password_history, u, new_password, HistoryLimit)
            THEN Done(p, PasswordResult(FALSE, "used_in_your_last_5_passwords"))
            ELSE /\ pc' = [pc EXCEPT ![p] = "add_password_to_history"]
                 /\ UNCHANGED <<resp, loc>>
    /\ UNCHANGED <<db, journal_event_logs, notification, password_history>>

\* add_password_to_history: gensalt gives a salt no earlier hash has, and
\* created_at is the time of the insert
AddPasswordToHistory(p) ==
    /\ pc[p] = "add_password_to_history"
    /\ Len(password_history) < MaxHistory
    /\ password_history' = Append(password_history,
            [user_id |-> req[p].user,
             password_hash |-> HashPassword(req[p].new_password, Len(password_history) + 1),
             created_at |-> Len(password_history) + 1])
    /\ Done(p, PasswordResult(TRUE, NULL))
    /\ UNCHANGED <<db, req, journal_event_logs, notification>>

NextPassword ==
    \/ ValidatePassword(1)
    \/ AddPasswordToHistory(1)
    \/ Respond(1)

SpecPassword == Init /\ [][NextPassword]_vars

-----------------------------------------------------------------------------
(* One client: requests are handled one after the other *)

Next ==
    \/ CreateBegin(1)
    \/ CreateInsertLines(1)
    \/ CreateFiles(1)
    \/ ApproveBegin(1)
    \/ ApproveUpdateStatus(1)
    \/ ApproveSelectLines(1)
    \/ ApproveInsertLedger(1)
    \/ ApproveReadAccount(1)
    \/ ApproveWriteBalance(1)
    \/ RejectBegin(1)
    \/ RejectUpdateStatus(1)
    \/ UpdateBegin(1)
    \/ UpdateHeader(1)
    \/ UpdateDeleteLines(1)
    \/ UpdateInsertLines(1)
    \/ UpdateFiles(1)
    \/ DeleteBegin(1)
    \/ DeleteAttachments(1)
    \/ DeleteLines(1)
    \/ DeleteEntry(1)
    \/ Respond(1)

Spec == Init /\ [][Next]_vars

-----------------------------------------------------------------------------
(* Several clients, each sending one approve or reject request, at the same *)
(* time                                                                     *)

\* the submitted line sets that pass the validation and the foreign key
AcceptedLineSets ==
    {ls \in SubmittedLineSets :
        /\ ValidateLines(ls).code = 200
        /\ \A k \in 1..Len(ls) : ls[k].account_id \in ExistingAccounts}

RECURSIVE LinesOfEntries(_, _)
LinesOfEntries(choice, n) ==
    IF n = 0 THEN <<>> ELSE LinesOfEntries(choice, n - 1) \o LinesInsert(n, choice[n])

\* the journal after MaxEntries successful submissions by u1
InitSubmitted ==
    /\ chartofaccounts = InitialAccounts
    /\ journalentries = [e \in EntryIDs |-> PendingEntry(1 + (e % 2), "u1")]
    /\ \E choice \in [EntryIDs -> AcceptedLineSets] :
            journalentrylines = LinesOfEntries(choice, MaxEntries)
    /\ accountledger = << >>
    /\ journalattachments = << >>
    /\ nextEntryID = MaxEntries + 1
    /\ Idle

NextConcurrent ==
    \E p \in Procs :
        \/ ApproveBegin(p)
        \/ ApproveUpdateStatus(p)
        \/ ApproveSelectLines(p)
        \/ ApproveInsertLedger(p)
        \/ ApproveReadAccount(p)
        \/ ApproveWriteBalance(p)
        \/ RejectBegin(p)
        \/ RejectUpdateStatus(p)

SpecConcurrent == InitSubmitted /\ [][NextConcurrent]_vars

-----------------------------------------------------------------------------
(* A client that edits the lines of a submitted entry while another client  *)
(* approves an entry                                                        *)

NextEditApprove ==
    \/ UpdateBeginWith(1, {"u1"}, {NoDate},
                       {<<Line(1, "Credit", 200), Line(2, "Debit", 200)>>})
    \/ UpdateDeleteLines(1)
    \/ UpdateInsertLines(1)
    \/ UpdateFiles(1)
    \/ ApproveBegin(2)
    \/ ApproveUpdateStatus(2)
    \/ ApproveSelectLines(2)
    \/ ApproveInsertLedger(2)
    \/ ApproveReadAccount(2)
    \/ ApproveWriteBalance(2)

SpecEditApprove == InitSubmitted /\ [][NextEditApprove]_vars

-----------------------------------------------------------------------------
(* One client approving submitted entries while database calls may fail *)

\* the pending database call raises (connection lost, statement refused):
\* the handler's "except Exception" turns it into a 500
DatabaseError(p) ==
    /\ pc[p] \notin {"idle", "done"}
    /\ Return(p, Response(500, "server_error"))
    /\ UNCHANGED <<db, req>>

NextFail ==
    \/ ApproveBegin(1)
    \/ ApproveUpdateStatus(1)
    \/ ApproveSelectLines(1)
    \/ ApproveInsertLedger(1)
    \/ ApproveReadAccount(1)
    \/ ApproveWriteBalance(1)
    \/ DatabaseError(1)
    \/ Respond(1)

SpecFail == InitSubmitted /\ [][NextFail]_vars

-----------------------------------------------------------------------------
(* One client submitting every line set of up to MaxLines lines *)

MaxLines == 2

LineDomain ==
    {Line(a, t, m) : a \in {1, UnknownAccount}, t \in {"Debit", "Credit", "Other"},
                     m \in {0, 100, 200}}
    \cup {LineWithout(k, 1, "Debit", 100) : k \in LineKeys}

AllLineSets == UNION {[1..n -> LineDomain] : n \in 0..MaxLines}

NextSubmit ==
    \/ CreateBeginWith(1, {"u1"}, {1}, AllLineSets)
    \/ CreateInsertLines(1)
    \/ CreateFiles(1)
    \/ Respond(1)

SpecSubmit == Init /\ [][NextSubmit]_vars

-----------------------------------------------------------------------------
(* One client whose submissions and edits carry files *)

FileCounts == 0..MaxFiles

NextFiles ==
    \/ CreateBeginWith(1, {"u2"}, {1}, {<<Line(1, "Debit", 100), Line(2, "Credit", 100)>>})
    \/ CreateInsertLines(1)
    \/ CreateFilesWith(1, FileCounts)
    \/ ApproveBegin(1)
    \/ ApproveUpdateStatus(1)
    \/ ApproveSelectLines(1)
    \/ ApproveInsertLedger(1)
    \/ ApproveReadAccount(1)
    \/ ApproveWriteBalance(1)
    \/ RejectBegin(1)
    \/ RejectUpdateStatus(1)
    \/ UpdateBegin(1)
    \/ UpdateHeader(1)
    \/ UpdateDeleteLines(1)
    \/ UpdateInsertLines(1)
    \/ UpdateFilesWith(1, FileCounts)
    \/ DeleteBegin(1)
    \/ DeleteAttachments(1)
    \/ DeleteLines(1)
    \/ DeleteEntry(1)
    \/ Respond(1)

SpecFiles == Init /\ [][NextFiles]_vars

-----------------------------------------------------------------------------
(* One client, the journal and the chart of accounts: entries are           *)
(* submitted, edited, approved, rejected and deleted while an Administrator *)
(* updates and deactivates accounts and ledgers are read                    *)

NextAccounts ==
    \/ CreateBeginWith(1, {"u2"}, {1}, {<<Line(1, "Debit", 100), Line(2, "Credit", 100)>>})
    \/ CreateInsertLines(1)
    \/ CreateFiles(1)
    \/ ApproveBegin(1)
    \/ ApproveUpdateStatus(1)
    \/ ApproveSelectLines(1)
    \/ ApproveInsertLedger(1)
    \/ ApproveReadAccount(1)
    \/ ApproveWriteBalance(1)
    \/ RejectBegin(1)
    \/ RejectUpdateStatus(1)
    \/ UpdateBeginWith(1, {"u3"}, {NoDate},
                       {<<Line(1, "Credit", 200), Line(2, "Debit", 200)>>})
    \/ UpdateDeleteLines(1)
    \/ UpdateInsertLines(1)
    \/ UpdateFiles(1)
    \/ DeleteBegin(1)
    \/ DeleteAttachments(1)
    \/ DeleteLines(1)
    \/ DeleteEntry(1)
    \/ UpdateAccountBegin(1)
    \/ UpdateAccountWrite(1)
    \/ DeactivateBegin(1)
    \/ DeactivateWrite(1)
    \/ GetAccountLedger(1)
    \/ Respond(1)

SpecAccounts == Init /\ [][NextAccounts]_vars

-----------------------------------------------------------------------------
(* One client whose entries are approved, and who reads the ledgers with    *)
(* and without date filters                                                 *)

\* the dates sent as start_date and end_date: none, the two entry dates
\* (which are the dates the accounts were created on), and a later one
FilterDates == {NoDate} \cup Dates \cup {3}

\* Line sets of the entries: 100 to each account on its normal side, and one
\* that takes from each account what it had at the start
LedgerLineSets ==
    { <<Line(1, "Debit", 100), Line(2, "Credit", 100)>>,
      <<Line(2, "Debit", InitialBalance), Line(1, "Credit", InitialBalance)>> }

NextLedger ==
    \/ CreateBeginWith(1, {"u1"}, Dates, LedgerLineSets)
    \/ CreateInsertLines(1)
    \/ CreateFiles(1)
    \/ ApproveBegin(1)
    \/ ApproveUpdateStatus(1)
    \/ ApproveSelectLines(1)
    \/ ApproveInsertLedger(1)
    \/ ApproveReadAccount(1)
    \/ ApproveWriteBalance(1)
    \/ GetAccountLedgerWith(1, {"u1"}, FilterDates)
    \/ Respond(1)

SpecLedger == Init /\ [][NextLedger]_vars

-----------------------------------------------------------------------------
(* Several Administrators creating and renumbering or renaming accounts at  *)
(* the same time                                                            *)

\* The accounts sent to create_account: a number and a name that are free
\* or taken at the start.
NewAccounts ==
    { AccountCreate(number, name, "Debit", 0) :
        number \in {"1000", "3000"}, name \in {"Cash", "Bank"} }

\* The updates of number and name: a free number, a number that is taken,
\* a free name, and a free number with a free name.
RenameUpdates ==
    { [AccountUpdate({"account_number"}, NULL, 0, TRUE) EXCEPT !.account_number = "3000"],
      [AccountUpdate({"account_number"}, NULL, 0, TRUE) EXCEPT !.account_number = "2000"],
      [AccountUpdate({"account_name"}, NULL, 0, TRUE) EXCEPT !.account_name = "Bank"],
      [AccountUpdate({"account_number", "account_name"}, NULL, 0, TRUE)
          EXCEPT !.account_number = "3000", !.account_name = "Bank"] }

NextChart ==
    \E p \in Procs :
        \/ CreateAccountBegin(p, {"u3"}, NewAccounts)
        \/ CreateAccountCheckName(p)
        \/ CreateAccountInsert(p)
        \/ UpdateAccountBeginWith(p, {"u3"}, RenameUpdates)
        \/ UpdateAccountCheckNumber(p)
        \/ UpdateAccountCheckName(p)
        \/ UpdateAccountWrite(p)
        \/ Respond(p)

SpecChart == Init /\ [][NextChart]_vars

-----------------------------------------------------------------------------
(* One client of the chart of accounts, its user any of the users, the one  *)
(* without a role included                                                  *)

AllUsers == Users \cup {NoRoleUser}

\* The updates sent: a balance of zero, a new number, a new name, the other
\* normal side.
AdminUpdates ==
    { AccountUpdate({"initial_balance"}, NULL, 0, TRUE),
      [AccountUpdate({"account_number"}, NULL, 0, TRUE) EXCEPT !.account_number = "3000"],
      [AccountUpdate({"account_name"}, NULL, 0, TRUE) EXCEPT !.account_name = "Bank"],
      AccountUpdate({"normal_side"}, "Credit", 0, TRUE) }

NextAdmin ==
    \/ CreateAccountBegin(1, AllUsers, NewAccounts)
    \/ CreateAccountCheckName(1)
    \/ CreateAccountInsert(1)
    \/ UpdateAccountBeginWith(1, AllUsers, AdminUpdates)
    \/ UpdateAccountCheckNumber(1)
    \/ UpdateAccountCheckName(1)
    \/ UpdateAccountWrite(1)
    \/ DeactivateBeginWith(1, AllUsers)
    \/ DeactivateWrite(1)
    \/ Respond(1)

SpecAdmin == Init /\ [][NextAdmin]_vars

-----------------------------------------------------------------------------
(* A client that submits entries, whatever becomes of the notification of   *)
(* the managers, and a second one that reads an entry when no submission is *)
(* under way                                                                *)

\* the decimals the amounts are written with: "200.0" and "200.00"
Scales == {1, TwoDecimals}

\* Line sets whose amounts are written with one and with two decimals
ScaledLineSets ==
    { <<LineScaled(1, "Debit", 200, sd), LineScaled(2, "Credit", 200, sc)>> :
        sd \in Scales, sc \in Scales }
    \cup { <<LineScaled(1, "Debit", 100, sc), LineScaled(1, "Debit", 100, sc),
             LineScaled(2, "Credit", 200, sc)>> : sc \in Scales }
    \cup { <<LineScaled(1, "Debit", 200, 1), LineScaled(2, "Credit", 100, 1)>> }

NextSubmitRead ==
    \/ CreateBeginWith(1, Creators, Dates, ScaledLineSets)
    \/ CreateInsertLines(1)
    \/ CreateEndWith(1, {0}, NotifyOutcomes)
    \/ Respond(1)
    \/ (pc[1] \in {"idle", "done"} /\ ReadJournalEntry(2))
    \/ Respond(2)

SpecSubmitRead == Init /\ [][NextSubmitRead]_vars

-----------------------------------------------------------------------------
(* Notions the properties use *)

\* no handler stands between two of its database calls
NoOperationInProgress == \A p \in Procs : pc[p] \in {"idle", "done"}

\* slot p handles a request in this step (it leaves "idle" or moves on)
Handles(p) == pc[p] # "done" /\ pc'[p] # "idle"

\* slot p starts handling a request in this step
Starts(p) == pc[p] = "idle" /\ pc'[p] # "idle"

\* the effect of a posted line on the balance of an account with that normal
\* side: + amount on the normal side, - amount on the other
Effect(row, normal_side) ==
    IF row.Type = normal_side THEN row.Amount ELSE 0 - row.Amount

RECURSIVE EffectSum(_, _)
EffectSum(rows, normal_side) ==
    IF rows = <<>> THEN 0
    ELSE Effect(Head(rows), normal_side) + EffectSum(Tail(rows), normal_side)

\* the lines on account a of the entries whose status is Approved
ApprovedLinesOn(a) ==
    SelectSeq(journalentrylines,
              LAMBDA r : /\ r.AccountID = a
                         /\ r.JournalEntryID \in DOMAIN journalentries
                         /\ journalentries[r.JournalEntryID].Status = "Approved")

\* the effect of a ledger posting on the balance of an account with that
\* normal side
RECURSIVE PostingEffectSum(_, _)
PostingEffectSum(rows, normal_side) ==
    IF rows = <<>> THEN 0
    ELSE (IF normal_side = "Debit"
          THEN Head(rows).Debit - Head(rows).Credit
          ELSE Head(rows).Credit - Head(rows).Debit)
         + PostingEffectSum(Tail(rows), normal_side)

PostingsOn(a) == SelectSeq(accountledger, LAMBDA r : r.AccountID = a)

\* the posting the ledger is to hold for a line of entry e
PostingFor(row, e) ==
    [AccountID |-> row.AccountID,
     JournalEntryID |-> e,
     TransactionDate |-> journalentries[e].EntryDate,
     Debit |-> IF row.Type = "Debit" THEN row.Amount ELSE 0,
     Credit |-> IF row.Type = "Credit" THEN row.Amount ELSE 0]

ExpectedPostings(e) == [k \in 1..Len(LinesOf(e)) |-> PostingFor(LinesOf(e)[k], e)]

\* the requests of slot p that succeeded in approving or rejecting entry e
Succeeded(p, e) ==
    /\ pc[p] = "done"
    /\ req[p].op \in {"approve", "reject"}
    /\ req[p].id = e
    /\ resp[p].code = 200

RECURSIVE TotalOf(_, _)
TotalOf(ls, t) ==
    IF ls = <<>> THEN 0
    ELSE (IF Head(ls).type = t THEN Head(ls).amount ELSE 0) + TotalOf(Tail(ls), t)

\* the rules of the validation, on a submitted line set
TooFewLines(ls) == Len(ls) < 2
LacksKey(ls) == \E k \in 1..Len(ls) : ~HasAllKeys(ls[k])
HasNonPositiveAmount(ls) == \E k \in 1..Len(ls) : HasAllKeys(ls[k]) /\ ls[k].amount <= 0
HasInvalidType(ls) ==
    \E k \in 1..Len(ls) : HasAllKeys(ls[k]) /\ ls[k].type \notin {"Debit", "Credit"}

ValidationDetails ==
    {"at_least_two_lines", "line_must_have_account_type_amount",
     "amount_must_be_greater_than_zero", "type_must_be_debit_or_credit",
     "debits_must_equal_credits"}

-----------------------------------------------------------------------------
(* Properties *)

\* C1: an approve sent by a Manager or Administrator for an entry that is
\* already Approved is refused at once with the 400 "already approved" error,
\* and the step adds no ledger posting and changes no account balance and no
\* entry.
C1_SecondApproveRefused ==
    [][\A p \in Procs :
          (/\ Starts(p)
           /\ req'[p].op = "approve"
           /\ MayApprove(RoleName(req'[p].user))
           /\ req'[p].id \in DOMAIN journalentries
           /\ journalentries[req'[p].id].Status = "Approved")
          => /\ pc'[p] = "done"
             /\ resp'[p] = Response(400, "already_approved")
             /\ accountledger' = accountledger
             /\ chartofaccounts' = chartofaccounts
             /\ journalentries' = journalentries]_vars

\* a second approve was refused for an entry whose lines are all posted once
C1_Witness ==
    \E p \in Procs :
        /\ pc[p] = "done"
        /\ req[p].op = "approve"
        /\ resp[p] = Response(400, "already_approved")
        /\ Len(PostingsOf(req[p].id)) > 0
        /\ Len(PostingsOf(req[p].id)) = Len(LinesOf(req[p].id))

\* C6: with requests handled one after the other, whenever no operation is
\* in progress every account balance is its initial balance plus, for every
\* line of every Approved entry on that account, + amount when the line type
\* is the account's normal side and - amount otherwise; so each successful
\* approve changed the balance by exactly that, several lines accumulating.
C6_ApproveBalanceEffect ==
    NoOperationInProgress =>
        \A a \in DOMAIN chartofaccounts :
            chartofaccounts[a].Balance =
                InitialBalance + EffectSum(ApprovedLinesOn(a), chartofaccounts[a].NormalSide)

\* an approve of Debit 100, Debit 100 on the Debit-normal account 1 and
\* Credit 200 on the Credit-normal account 2 succeeded and raised both by 200
C6_Witness ==
    \E p \in Procs :
        /\ pc[p] = "done"
        /\ req[p].op = "approve"
        /\ resp[p].code = 200
        /\ Len(LinesOf(req[p].id)) = 3
        /\ chartofaccounts[1].Balance = InitialBalance + 200
        /\ chartofaccounts[2].Balance = InitialBalance + 200

\* C8: a submit whose line set has fewer than 2 lines, or a line lacking
\* account_id, type or amount, or a line with an amount <= 0, or a line with a
\* type other than Debit and Credit, ends at once with a 400 validation error
\* and inserts no entry and no line.
C8_SubmitRejectsMalformed ==
    [][\A p \in Procs :
          (/\ Starts(p)
           /\ req'[p].op = "create"
           /\ \/ TooFewLines(req'[p].lines)
              \/ LacksKey(req'[p].lines)
              \/ HasNonPositiveAmount(req'[p].lines)
              \/ HasInvalidType(req'[p].lines))
          => /\ pc'[p] = "done"
             /\ resp'[p].code = 400
             /\ resp'[p].detail \in ValidationDetails
             /\ journalentries' = journalentries
             /\ journalentrylines' = journalentrylines]_vars

\* a submit of two lines with amount 0 was rejected and the journal is empty
C8_Witness ==
    \E p \in Procs :
        /\ pc[p] = "done"
        /\ req[p].op = "create"
        /\ Len(req[p].lines) = 2
        /\ HasNonPositiveAmount(req[p].lines)
        /\ ~LacksKey(req[p].lines)
        /\ ~HasInvalidType(req[p].lines)
        /\ resp[p] = Response(400, "amount_must_be_greater_than_zero")
        /\ journalentries = << >>
        /\ journalentrylines = << >>

\* C2: whatever the interleaving of concurrent approve and reject requests,
\* at most one request succeeds per entry, an entry never has more postings
\* than lines, and once every request has ended each balance carries the
\* effect of each line of an Approved entry once.
C2_AtMostOneSucceeds ==
    /\ \A e \in EntryIDs :
          /\ Cardinality({p \in Procs : Succeeded(p, e)}) <= 1
          /\ Len(PostingsOf(e)) <= Len(LinesOf(e))
    /\ (\A p \in Procs : pc[p] = "done") =>
          \A a \in DOMAIN chartofaccounts :
              chartofaccounts[a].Balance =
                  InitialBalance + EffectSum(ApprovedLinesOn(a), chartofaccounts[a].NormalSide)

\* C3: when two clients have each approved a different entry, and nothing
\* else was sent, every balance is its initial balance plus the effects of
\* the lines of both entries.
C3_NoLostUpdate ==
    \A p, q \in Procs :
        (/\ p # q
         /\ Succeeded(p, req[p].id) /\ req[p].op = "approve"
         /\ Succeeded(q, req[q].id) /\ req[q].op = "approve"
         /\ req[p].id # req[q].id
         /\ \A r \in Procs \ {p, q} : pc[r] = "idle")
        => \A a \in DOMAIN chartofaccounts :
               chartofaccounts[a].Balance =
                   InitialBalance + EffectSum(ApprovedLinesOn(a), chartofaccounts[a].NormalSide)

\* C4: approve is all or nothing: with no operation in progress an Approved
\* entry has one posting per line and any other entry has none, every balance
\* carries exactly the postings of the ledger, and an approve that ended in an
\* error left its entry Pending.
C4_ApproveAllOrNothing ==
    NoOperationInProgress =>
        /\ \A e \in DOMAIN journalentries :
              IF journalentries[e].Status = "Approved"
              THEN Len(PostingsOf(e)) = Len(LinesOf(e))
              ELSE PostingsOf(e) = << >>
        /\ \A a \in DOMAIN chartofaccounts :
              chartofaccounts[a].Balance =
                  InitialBalance + PostingEffectSum(PostingsOn(a), chartofaccounts[a].NormalSide)
        /\ \A p \in Procs :
              (pc[p] = "done" /\ req[p].op = "approve" /\ resp[p].code = 500)
              => journalentries[req[p].id].Status = "Pending"

\* C5: with no operation in progress, the postings of every Approved entry
\* are, one for one, the postings of its lines: the line's account, the
\* entry's date, the amount as debit (Debit line) or as credit (Credit line)
\* and zero in the other field.
C5_OnePostingPerLine ==
    NoOperationInProgress =>
        \A e \in DOMAIN journalentries :
            journalentries[e].Status = "Approved" =>
                /\ Len(PostingsOf(e)) = Len(LinesOf(e))
                /\ \A k \in 1..Len(LinesOf(e)) :
                      Count(PostingsOf(e), ExpectedPostings(e)[k])
                          = Count(ExpectedPostings(e), ExpectedPostings(e)[k])

\* C7: a submit, or an edit of a Pending entry by someone allowed to edit it,
\* whose lines are well formed but whose Debit total differs from the Credit
\* total changes no entry and no line in any of its steps and ends with the
\* 400 error that reports both totals; and one that ends in success had equal
\* totals.
C7_UnbalancedRejectedNothingPersisted ==
    [][\A p \in Procs :
          (/\ Handles(p)
           /\ req'[p].op \in {"create", "update"}
           /\ req'[p].lines_given
           /\ ~TooFewLines(req'[p].lines) /\ ~LacksKey(req'[p].lines)
           /\ ~HasNonPositiveAmount(req'[p].lines) /\ ~HasInvalidType(req'[p].lines)
           /\ req'[p].op = "update" =>
                 /\ req'[p].id \in DOMAIN journalentries
                 /\ journalentries[req'[p].id].Status = "Pending"
                 /\ MayModify(journalentries[req'[p].id], req'[p].user))
          => IF TotalOf(req'[p].lines, "Debit") # TotalOf(req'[p].lines, "Credit")
             THEN /\ journalentries' = journalentries
                  /\ journalentrylines' = journalentrylines
                  /\ pc'[p] = "done" =>
                        resp'[p] = MismatchResponse(TotalOf(req'[p].lines, "Debit"),
                                                    TotalOf(req'[p].lines, "Credit"))
             ELSE TRUE]_vars

\* C9: a submit with a line that names an account that does not exist is
\* rejected, and when it has ended no entry of that submission is in the
\* journal.
C9_UnknownAccountRejected ==
    \A p \in Procs :
        (/\ pc[p] = "done"
         /\ req[p].op = "create"
         /\ \E k \in 1..Len(req[p].lines) :
               HasAllKeys(req[p].lines[k])
               /\ req[p].lines[k].account_id \notin DOMAIN chartofaccounts)
        => /\ resp[p].code # 200
           /\ req[p].id \notin DOMAIN journalentries
           /\ LinesOf(req[p].id) = << >>

\* C10: with no operation in progress, every entry of the journal has at
\* least two lines, a Debit line and a Credit line among them.
C10_EntryHasDebitAndCredit ==
    NoOperationInProgress =>
        \A e \in DOMAIN journalentries :
            /\ Len(LinesOf(e)) >= 2
            /\ \E k \in 1..Len(LinesOf(e)) : LinesOf(e)[k].Type = "Debit"
            /\ \E k \in 1..Len(LinesOf(e)) : LinesOf(e)[k].Type = "Credit"

\* the total of the amounts of the rows of one type
RECURSIVE RowTotal(_, _)
RowTotal(rows, t) ==
    IF rows = <<>> THEN 0
    ELSE (IF Head(rows).Type = t THEN Head(rows).Amount ELSE 0) + RowTotal(Tail(rows), t)

\* C11: in every state, the lines of every entry of the journal have equal
\* Debit and Credit totals, and every one of them has an amount above zero.
C11_PersistedLinesBalanced ==
    \A e \in DOMAIN journalentries :
        /\ RowTotal(LinesOf(e), "Debit") = RowTotal(LinesOf(e), "Credit")
        /\ \A k \in 1..Len(LinesOf(e)) : LinesOf(e)[k].Amount > 0

\* an edit has replaced the lines of a Pending entry, and the journal holds an
\* entry with lines of both types
C11_Witness ==
    \E p \in Procs :
        /\ pc[p] = "done"
        /\ req[p].op = "update"
        /\ req[p].lines_given
        /\ resp[p].code = 200
        /\ req[p].id \in DOMAIN journalentries
        /\ RowTotal(LinesOf(req[p].id), "Debit") = 200
        /\ RowTotal(LinesOf(req[p].id), "Credit") = 200

\* the fields approve and reject write
DecisionFields == {"Status", "ApprovedByUserID", "ApprovalDate", "RejectionReason"}

\* C12: an entry enters the journal as Pending; once its status is Approved
\* or Rejected no step changes its status, approver, approval time or
\* rejection reason; and an approve or reject sent by a Manager or
\* Administrator for such an entry ends at once with a 400 error.
C12_StatusChangesOnce ==
    [][/\ \A e \in DOMAIN journalentries' \ DOMAIN journalentries :
             journalentries'[e].Status = "Pending"
       /\ \A e \in DOMAIN journalentries \cap DOMAIN journalentries' :
             journalentries[e].Status # "Pending" =>
                 \A f \in DecisionFields : journalentries'[e][f] = journalentries[e][f]
       /\ \A p \in Procs :
             (/\ Starts(p)
              /\ req'[p].op \in {"approve", "reject"}
              /\ MayApprove(RoleName(req'[p].user))
              /\ req'[p].id \in DOMAIN journalentries
              /\ journalentries[req'[p].id].Status # "Pending")
             => /\ pc'[p] = "done"
                /\ resp'[p].code = 400]_vars

\* the refusals of approve and reject for an entry that is not Pending
InvalidStateDetails ==
    {"already_approved", "cannot_approve_rejected",
     "cannot_reject_approved", "already_rejected"}

\* the user's role is Manager or Administrator
IsManagerOrAdministrator(u) == RoleName(u) \in {"Manager", "Administrator"}

\* C13: an approve or reject sent by a user whose role is neither Manager nor
\* Administrator ends at once with the 403 error; one sent by a Manager or
\* Administrator for an entry that is not Pending ends at once with a 400
\* invalid-state error; no request that fails either check succeeds; and in
\* all these cases no table changes.
C13_ApproveRejectPreconditions ==
    [][\A p \in Procs :
          (Starts(p) /\ req'[p].op \in {"approve", "reject"}) =>
              /\ ~IsManagerOrAdministrator(req'[p].user) =>
                    /\ pc'[p] = "done"
                    /\ resp'[p] = Response(403, "forbidden")
                    /\ UNCHANGED db
              /\ (/\ IsManagerOrAdministrator(req'[p].user)
                  /\ req'[p].id \in DOMAIN journalentries
                  /\ journalentries[req'[p].id].Status # "Pending") =>
                    /\ pc'[p] = "done"
                    /\ resp'[p].code = 400
                    /\ resp'[p].detail \in InvalidStateDetails
                    /\ UNCHANGED db
              /\ ~(/\ IsManagerOrAdministrator(req'[p].user)
                   /\ req'[p].id \in DOMAIN journalentries
                   /\ journalentries[req'[p].id].Status = "Pending") =>
                    /\ pc'[p] = "done"
                    /\ resp'[p].code # 200
                    /\ UNCHANGED db]_vars

\* a Manager's reject of an Approved entry, its postings in place, was
\* refused with 400
C13_Witness ==
    \E p \in Procs :
        /\ pc[p] = "done"
        /\ req[p].op = "reject"
        /\ RoleName(req[p].user) = "Manager"
        /\ req[p].id \in DOMAIN journalentries
        /\ journalentries[req[p].id].Status = "Approved"
        /\ PostingsOf(req[p].id) # << >>
        /\ resp[p] = Response(400, "cannot_reject_approved")

\* a reject of a Pending entry by a Manager or Administrator starts at slot p
StartsRejectOfPending(p) ==
    /\ Starts(p)
    /\ req'[p].op = "reject"
    /\ IsManagerOrAdministrator(req'[p].user)
    /\ req'[p].id \in DOMAIN journalentries
    /\ journalentries[req'[p].id].Status = "Pending"

\* slot p is in a step of a reject
InReject(p) == pc[p] # "done" /\ pc'[p] # "idle" /\ req'[p].op = "reject"

\* the update of a reject: the entry is Rejected and carries the reason as
\* sent, the rejecting user and the time
RejectStored(p) ==
    pc[p] = "reject_update" =>
        /\ pc'[p] = "done"
        /\ resp'[p].code = 200
        /\ journalentries'[req[p].id] =
               [journalentries[req[p].id] EXCEPT
                   !.Status = "Rejected",
                   !.RejectionReason = req[p].reason,
                   !.ApprovedByUserID = req[p].user,
                   !.ApprovalDate = "now"]

\* C14 (as stated): a reject of a Pending entry by a Manager or Administrator
\* with a reason of fewer than 5 characters ends with an error and leaves the
\* entry Pending; with a reason of 5 characters or more it goes on to set the
\* entry Rejected and to store reason, approver and time; no step of a reject
\* changes the ledger or a balance.
C14_RejectByReasonLength ==
    [][\A p \in Procs :
          /\ StartsRejectOfPending(p) =>
                IF Len(req'[p].reason) < MinReasonLength
                THEN /\ pc'[p] = "done"
                     /\ resp'[p].code = 400
                     /\ UNCHANGED db
                ELSE /\ pc'[p] = "reject_update"
                     /\ UNCHANGED db
          /\ InReject(p) =>
                /\ RejectStored(p)
                /\ UNCHANGED <<accountledger, chartofaccounts>>]_vars

\* C14 (amended): the length that decides is that of the reason without its
\* leading and trailing blanks: below 5 the reject ends with the 400 error
\* and the entry stays Pending; from 5 on the entry is set to Rejected and
\* stores the reason as sent, the rejecting user and the time; no step of a
\* reject changes the ledger or a balance.
C14_RejectByStrippedReasonLength ==
    [][\A p \in Procs :
          /\ StartsRejectOfPending(p) =>
                IF Len(Strip(req'[p].reason)) < MinReasonLength
                THEN /\ pc'[p] = "done"
                     /\ resp'[p] = Response(400, "reason_too_short")
                     /\ UNCHANGED db
                ELSE /\ pc'[p] = "reject_update"
                     /\ UNCHANGED db
          /\ InReject(p) =>
                /\ RejectStored(p)
                /\ UNCHANGED <<accountledger, chartofaccounts>>]_vars

\* a reject of a Pending entry with a reason of six characters, two of them
\* other than blanks, was refused and the entry is still Pending
C14_Witness ==
    \E p \in Procs :
        /\ pc[p] = "done"
        /\ req[p].op = "reject"
        /\ IsManagerOrAdministrator(req[p].user)
        /\ Len(req[p].reason) >= MinReasonLength
        /\ Len(Strip(req[p].reason)) < MinReasonLength
        /\ resp[p] = Response(400, "reason_too_short")
        /\ req[p].id \in DOMAIN journalentries
        /\ journalentries[req[p].id].Status = "Pending"

\* the user created the entry or is an Administrator
IsCreatorOrAdministrator(entry, u) ==
    entry.CreatedByUserID = u \/ RoleName(u) = "Administrator"

\* an edit or delete of an entry that is Approved or Rejected starts at slot p
StartsModifyOfDecided(p) ==
    /\ Starts(p)
    /\ req'[p].op \in {"update", "delete"}
    /\ req'[p].id \in DOMAIN journalentries
    /\ journalentries[req'[p].id].Status \in {"Approved", "Rejected"}

\* no entry that is Approved or Rejected loses its existence, its date, its
\* creator, a line or an attachment in this step, or gains one
DecidedEntriesKept ==
    \A e \in DOMAIN journalentries :
        journalentries[e].Status \in {"Approved", "Rejected"} =>
            /\ e \in DOMAIN journalentries'
            /\ journalentries'[e].EntryDate = journalentries[e].EntryDate
            /\ journalentries'[e].CreatedByUserID = journalentries[e].CreatedByUserID
            /\ SelectSeq(journalentrylines', LAMBDA r : r.JournalEntryID = e) = LinesOf(e)
            /\ SelectSeq(journalattachments', LAMBDA r : r.JournalEntryID = e)
                   = AttachmentsOf(e)

\* C15 (as stated): an edit or delete of an entry that is Approved or
\* Rejected ends at once with the 400 invalid-state error, and no step takes
\* away or changes such an entry, its date, its lines or its attachments.
C15_DecidedEntryRefusedInvalidState ==
    [][/\ \A p \in Procs :
             StartsModifyOfDecided(p) =>
                 /\ pc'[p] = "done"
                 /\ resp'[p] = Response(400, "not_pending")
       /\ DecidedEntriesKept]_vars

\* C15 (amended): an edit or delete of an entry that is Approved or Rejected
\* ends at once with an error: the 403 permission error when the user is
\* neither the entry's creator nor an Administrator, the 400 invalid-state
\* error otherwise; and no step takes away or changes such an entry, its
\* date, its lines or its attachments.
C15_DecidedEntryRefused ==
    [][/\ \A p \in Procs :
             StartsModifyOfDecided(p) =>
                 /\ pc'[p] = "done"
                 /\ resp'[p] =
                      IF IsCreatorOrAdministrator(journalentries[req'[p].id], req'[p].user)
                      THEN Response(400, "not_pending")
                      ELSE Response(403, "forbidden")
       /\ DecidedEntriesKept]_vars

\* a delete of an Approved entry, with postings and an attachment, by a user
\* who neither created it nor is an Administrator was refused with 403, and
\* the entry, its lines and its attachment are in place
C15_Witness ==
    \E p \in Procs :
        /\ pc[p] = "done"
        /\ req[p].op = "delete"
        /\ req[p].id \in DOMAIN journalentries
        /\ journalentries[req[p].id].Status = "Approved"
        /\ ~IsCreatorOrAdministrator(journalentries[req[p].id], req[p].user)
        /\ resp[p] = Response(403, "forbidden")
        /\ Len(LinesOf(req[p].id)) = 2
        /\ Len(PostingsOf(req[p].id)) = 2
        /\ Len(AttachmentsOf(req[p].id)) = 1

\* C16: an edit or delete of an existing entry by a user who neither created
\* it nor is an Administrator, a Manager included, does not succeed and
\* changes no table; when the entry is Pending it ends at once with the 403
\* permission error.
C16_ModifyOnlyByCreatorOrAdministrator ==
    [][\A p \in Procs :
          (/\ Starts(p)
           /\ req'[p].op \in {"update", "delete"}
           /\ req'[p].id \in DOMAIN journalentries
           /\ ~IsCreatorOrAdministrator(journalentries[req'[p].id], req'[p].user))
          => /\ pc'[p] = "done"
             /\ resp'[p].code # 200
             /\ journalentries[req'[p].id].Status = "Pending" =>
                    resp'[p] = Response(403, "forbidden")
             /\ UNCHANGED db]_vars

\* a Manager's edit of a Pending entry that an Accountant created was refused
\* with 403
C16_Witness ==
    \E p \in Procs :
        /\ pc[p] = "done"
        /\ req[p].op = "update"
        /\ RoleName(req[p].user) = "Manager"
        /\ req[p].lines_given
        /\ req[p].id \in DOMAIN journalentries
        /\ journalentries[req[p].id].Status = "Pending"
        /\ journalentries[req[p].id].CreatedByUserID # req[p].user
        /\ RoleName(journalentries[req[p].id].CreatedByUserID) = "Accountant"
        /\ resp[p] = Response(403, "forbidden")

\* the line set fails one of the rules of the validation
FailsValidation(ls) ==
    \/ TooFewLines(ls)
    \/ LacksKey(ls)
    \/ HasNonPositiveAmount(ls)
    \/ HasInvalidType(ls)
    \/ TotalOf(ls, "Debit") # TotalOf(ls, "Credit")

\* C17: an edit of a Pending entry, by its creator or an Administrator, that
\* carries a new date together with a line set that fails the validation
\* changes neither the entry nor its lines in any of its steps, and ends with
\* a 400 validation error.
C17_FailedEditAppliesNothing ==
    [][\A p \in Procs :
          (/\ Handles(p)
           /\ req'[p].op = "update"
           /\ req'[p].entry_date # NoDate
           /\ req'[p].lines_given
           /\ FailsValidation(req'[p].lines)
           /\ req'[p].id \in DOMAIN journalentries
           /\ journalentries[req'[p].id].Status = "Pending"
           /\ IsCreatorOrAdministrator(journalentries[req'[p].id], req'[p].user))
          => /\ journalentries'[req'[p].id] = journalentries[req'[p].id]
             /\ SelectSeq(journalentrylines', LAMBDA r : r.JournalEntryID = req'[p].id)
                    = LinesOf(req'[p].id)
             /\ pc'[p] = "done" => resp'[p].code = 400]_vars

\* the rows the journal is to hold for entry e after an edit with lines ls
SuppliedRows(e, ls) ==
    [k \in 1..Len(ls) |->
        [JournalEntryID |-> e, AccountID |-> ls[k].account_id,
         Type |-> ls[k].type, Amount |-> ls[k].amount]]

\* C18: when an edit that carried lines has succeeded, the lines of the entry
\* are exactly the lines sent, none of the old set among them; when a delete
\* has succeeded, the journal holds no entry, no line and no attachment
\* record with the id of the deleted entry.
C18_EditReplacesDeleteRemoves ==
    \A p \in Procs :
        (pc[p] = "done" /\ resp[p].code = 200) =>
            /\ (req[p].op = "update" /\ req[p].lines_given) =>
                   LinesOf(req[p].id) = SuppliedRows(req[p].id, req[p].lines)
            /\ req[p].op = "delete" =>
                   /\ req[p].id \notin DOMAIN journalentries
                   /\ LinesOf(req[p].id) = << >>
                   /\ AttachmentsOf(req[p].id) = << >>

\* an edit has replaced the two lines of 100 of an entry that has an
\* attachment by the two lines of 200 it sent
C18_Witness ==
    \E p \in Procs :
        /\ pc[p] = "done"
        /\ resp[p].code = 200
        /\ req[p].op = "update"
        /\ req[p].lines_given
        /\ Len(AttachmentsOf(req[p].id)) = 1
        /\ Len(LinesOf(req[p].id)) = 2
        /\ \A k \in 1..2 : LinesOf(req[p].id)[k].Amount = 200

\* C19: the ledger only grows: every step leaves the postings there are in
\* place, each with the fields it had, and adds postings at most.
C19_LedgerAppendOnly ==
    [][/\ Len(accountledger') >= Len(accountledger)
       /\ SubSeq(accountledger', 1, Len(accountledger)) = accountledger]_vars

\* an Administrator has deactivated, through an update, an account that
\* carries postings, and a Pending entry was deleted, with the postings of an
\* Approved entry in the ledger
C19_Witness ==
    \E p \in Procs :
        /\ pc[p] = "done"
        /\ req[p].op = "delete"
        /\ resp[p].code = 200
        /\ \E a \in DOMAIN chartofaccounts :
              ~chartofaccounts[a].IsActive /\ PostingsOn(a) # << >>
        /\ \E e \in DOMAIN journalentries :
              journalentries[e].Status = "Approved" /\ Len(PostingsOf(e)) = 2

\* C20: in every state, every posting of the ledger names an entry that is in
\* the journal with status Approved (so that no Pending or Rejected entry has
\* a posting), and exactly one of its Debit and Credit amounts is not zero.
C20_PostingsOfApprovedEntriesOnly ==
    \A k \in 1..Len(accountledger) :
        /\ accountledger[k].JournalEntryID \in DOMAIN journalentries
        /\ journalentries[accountledger[k].JournalEntryID].Status = "Approved"
        /\ (accountledger[k].Debit # 0) # (accountledger[k].Credit # 0)

\* slot p has answered an unfiltered read of the ledger of an account
ReadWholeLedger(p) ==
    /\ pc[p] = "done"
    /\ req[p].op = "get_account_ledger"
    /\ req[p].start_date = NoDate
    /\ req[p].end_date = NoDate
    /\ resp[p].code = 200

\* C21: an unfiltered read of the ledger of an account that has postings
\* starts with the Opening row, whose balance is the balance the account had
\* before any posting, and ends with that balance plus the effects of the
\* postings; for the Debit-normal account with one posting of Debit 100 it
\* returns two rows, Opening with the initial balance and the posting with
\* the initial balance plus 100.
C21_ReadFoldsOntoInitialBalance ==
    \A p \in Procs :
        (ReadWholeLedger(p) /\ PostingsOn(req[p].id) # << >>) =>
            LET a == req[p].id
                rows == resp[p].body.rows
            IN /\ Len(rows) = Len(PostingsOn(a)) + 1
               /\ rows[1].post_ref = OpeningRef
               /\ rows[1].balance = InitialAccounts[a].Balance
               /\ rows[Len(rows)].balance =
                      InitialAccounts[a].Balance
                          + PostingEffectSum(PostingsOn(a), chartofaccounts[a].NormalSide)

\* the running balance on the last row of an unfiltered read of account a
LastRunningBalance(a) ==
    LET rows == AccountLedger(chartofaccounts[a], accountledger, a, NoDate, NoDate)
    IN rows[Len(rows)].balance

\* C22: with no operation in progress, for every account whose unfiltered
\* ledger has a row, the running balance on the last row is the account's
\* stored balance.
C22_ReplayEqualsStoredBalance ==
    NoOperationInProgress =>
        \A a \in DOMAIN chartofaccounts :
            AccountLedger(chartofaccounts[a], accountledger, a, NoDate, NoDate) # << >>
                => LastRunningBalance(a) = chartofaccounts[a].Balance

\* slot p has answered a read of the ledger of an account
ReadLedger(p) ==
    /\ pc[p] = "done"
    /\ req[p].op = "get_account_ledger"
    /\ resp[p].code = 200

\* the rows of a result that stand for postings
PostingRows(rows) == SelectSeq(rows, LAMBDA r : r.post_ref # OpeningRef)

\* the postings of account a whose date lies within the filters sent
PostingsWithin(a, start_date, end_date) ==
    SelectSeq(accountledger,
              LAMBDA r : /\ r.AccountID = a
                         /\ start_date = NoDate \/ r.TransactionDate >= start_date
                         /\ end_date = NoDate \/ r.TransactionDate <= end_date)

\* row r of a result shows the posting at the position of its post timestamp
ShowsPosting(r, a) ==
    /\ r.post_timestamp \in 1..Len(accountledger)
    /\ LET posting == accountledger[r.post_timestamp]
       IN /\ posting.AccountID = a
          /\ r.post_ref = <<"JE", posting.JournalEntryID>>
          /\ r.date = posting.TransactionDate
          /\ r.debit = posting.Debit
          /\ r.credit = posting.Credit

\* C23: the posting rows of a ledger read are the postings of the account
\* within the filters, each once, ordered by transaction date and, within a
\* date, by post timestamp; and every posting row that has a row before it
\* carries that row's running balance plus debit - credit when the account
\* is Debit-normal, plus credit - debit when it is Credit-normal.
C23_LedgerOrderedWithRunningBalance ==
    \A p \in Procs :
        ReadLedger(p) =>
            LET a == req[p].id
                rows == resp[p].body.rows
                posted == PostingRows(rows)
            IN /\ Len(posted) = Len(PostingsWithin(a, req[p].start_date, req[p].end_date))
               /\ \A k \in 1..Len(posted) : ShowsPosting(posted[k], a)
               /\ \A j, k \in 1..Len(posted) :
                     j < k =>
                        \/ posted[j].date < posted[k].date
                        \/ /\ posted[j].date = posted[k].date
                           /\ posted[j].post_timestamp < posted[k].post_timestamp
               /\ \A k \in 2..Len(rows) :
                     rows[k].balance =
                        rows[k - 1].balance
                          + (IF chartofaccounts[a].NormalSide = "Debit"
                             THEN rows[k].debit - rows[k].credit
                             ELSE rows[k].credit - rows[k].debit)

\* a read of the Credit-normal account returned two postings of which the
\* one posted last comes first, since its transaction date is the earlier
C23_Witness ==
    \E p \in Procs :
        /\ ReadLedger(p)
        /\ chartofaccounts[req[p].id].NormalSide = "Credit"
        /\ LET posted == PostingRows(resp[p].body.rows)
           IN /\ Len(posted) = 2
              /\ posted[1].date < posted[2].date
              /\ posted[1].post_timestamp > posted[2].post_timestamp
              /\ posted[1].credit > 0

\* the creation date of account a lies within the filters sent, a filter
\* that was not sent excluding nothing
CreatedWithin(a, start_date, end_date) ==
    /\ start_date = NoDate \/ chartofaccounts[a].DateCreated >= start_date
    /\ end_date = NoDate \/ chartofaccounts[a].DateCreated <= end_date

StartsDeactivation(p) ==
    /\ Starts(p)
    /\ req'[p].id \in DOMAIN chartofaccounts
    /\ \/ req'[p].op = "deactivate_account"
       \/ /\ req'[p].op = "update_account"
          /\ "is_active" \in req'[p].account_update.fields
          /\ ~req'[p].account_update.is_active

\* C25: no step takes the active flag from an account whose balance is not
\* zero; and a deactivate_account, or an update_account with is_active =
\* false, sent by an Administrator for an active account whose balance is not
\* zero ends at once with a 400 error.
C25_NoDeactivationWithBalance ==
    [][/\ \A a \in DOMAIN chartofaccounts :
             (chartofaccounts[a].IsActive /\ ~chartofaccounts'[a].IsActive)
                 => chartofaccounts[a].Balance = 0
       /\ \A p \in Procs :
             (/\ StartsDeactivation(p)
              /\ RoleName(req'[p].user) = "Administrator"
              /\ chartofaccounts[req'[p].id].IsActive
              /\ chartofaccounts[req'[p].id].Balance # 0)
             => /\ pc'[p] = "done"
                /\ resp'[p].code = 400]_vars

\* C26: the balance of an account changes only in the step of an approve
\* that writes the balance for a posted line: no step of update_account,
\* deactivate_account, submit, edit, reject, delete or a ledger read changes
\* the balance of any account.
C26_BalanceWrittenByApproveOnly ==
    [][\A a \in DOMAIN chartofaccounts :
          chartofaccounts'[a].Balance # chartofaccounts[a].Balance =>
              \E p \in Procs :
                  /\ pc[p] = "approve_write"
                  /\ req[p].op = "approve"
                  /\ loc[p].lines_result[loc[p].i].AccountID = a]_vars

\* the details of the refusals for a number or a name that is taken
ConflictDetails == {"account_number_exists", "account_name_exists"}

\* the number or the name that slot p's request asks for is that of an
\* account other than the one it writes
AsksForTaken(p) ==
    LET account == req[p].account_update
        written == IF req[p].op = "update_account" THEN req[p].id ELSE 0
    IN \/ /\ "account_number" \in account.fields
          /\ \E a \in DOMAIN chartofaccounts \ {written} :
                chartofaccounts[a].AccountNumber = account.account_number
       \/ /\ "account_name" \in account.fields
          /\ \E a \in DOMAIN chartofaccounts \ {written} :
                chartofaccounts[a].AccountName = account.account_name

\* C27: after any sequence and any interleaving of create_account and
\* update_account requests no two accounts have the same number and no two
\* the same name; and the step in which such a request ends while another
\* account has the number or the name it asks for ends it with the 400
\* conflict error and leaves the chart of accounts as it was.
C27_AccountNumbersAndNamesUnique ==
    [][/\ \A a, b \in DOMAIN chartofaccounts' :
             a # b => /\ chartofaccounts'[a].AccountNumber # chartofaccounts'[b].AccountNumber
                      /\ chartofaccounts'[a].AccountName # chartofaccounts'[b].AccountName
       /\ \A p \in Procs :
             (/\ pc[p] \notin {"idle", "done"}
              /\ pc'[p] = "done"
              /\ req[p].op \in {"create_account", "update_account"}
              /\ AsksForTaken(p))
             => /\ resp'[p].code = 400
                /\ resp'[p].detail \in ConflictDetails
                /\ chartofaccounts' = chartofaccounts]_vars

\* the lines of a submitted line set, as a read is to return them
SubmittedLines(ls) ==
    [k \in 1..Len(ls) |->
        [account_id |-> ls[k].account_id, type |-> ls[k].type,
         amount |-> ls[k].amount, scale |-> ls[k].scale]]

\* two sequences hold the same elements the same number of times
SameBag(s, t) ==
    /\ Len(s) = Len(t)
    /\ \A k \in 1..Len(s) : Count(s, s[k]) = Count(t, s[k])

\* the payload carries the status Pending and the lines of the line set
ReadsBackAs(body, ls) ==
    /\ body.status = "Pending"
    /\ SameBag(body.lines, SubmittedLines(ls))

\* C28: the entry that a successful submit returns (it ends with a read of
\* the entry), and the entry that a read right after it returns, has status
\* Pending and, line for line, the lines submitted: as many, each with the
\* account, the type and the amount of a submitted line, the amount written
\* with the same number of decimals.
C28_SubmitReadRoundTrip ==
    \A p \in Procs :
        (pc[p] = "done" /\ req[p].op = "create" /\ resp[p].code = 200) =>
            /\ ReadsBackAs(resp[p].body, req[p].lines)
            /\ \A q \in Procs :
                  (/\ pc[q] = "done"
                   /\ req[q].op = "get"
                   /\ req[q].id = req[p].id
                   /\ resp[q].code = 200)
                  => ReadsBackAs(resp[q].body, req[p].lines)

\* the outcomes of the notification in which something failed
NotifyFailures == {"role_lookup_failed", "email_lookup_failed", "send_failed"}

\* C29: a submit in which the lookup of the Manager role, the lookup of a
\* manager's email or the sending of the email failed ends with success all
\* the same, and the entry is in the journal as Pending with all the lines
\* submitted.
C29_NotificationFailureHarmless ==
    \A p \in Procs :
        (pc[p] = "done" /\ req[p].op = "create" /\ notification[p] \in NotifyFailures) =>
            /\ resp[p].code = 200
            /\ req[p].id \in DOMAIN journalentries
            /\ journalentries[req[p].id].Status = "Pending"
            /\ LinesOf(req[p].id) = SuppliedRows(req[p].id, req[p].lines)

\* a submit of three lines whose emails could not be sent has ended with
\* success, its entry Pending with three lines
C29_Witness ==
    \E p \in Procs :
        /\ pc[p] = "done"
        /\ req[p].op = "create"
        /\ notification[p] = "send_failed"
        /\ resp[p].code = 200
        /\ journalentries[req[p].id].Status = "Pending"
        /\ Len(LinesOf(req[p].id)) = 3

\* the operations on entries that are logged, and the action type of each
LoggedOperations == {"create", "approve", "reject", "update", "delete"}

ActionTypeOf(op) ==
    CASE op = "create" -> "CREATE"
      [] op = "approve" -> "APPROVE"
      [] op = "reject" -> "REJECT"
      [] op = "update" -> "UPDATE"
      [] op = "delete" -> "DELETE"

IsDecided(entry) == entry.Status \in {"Approved", "Rejected"}

\* C31: in every reachable state, an entry has an approver and an approval
\* timestamp exactly when its status is Approved or Rejected, and it has a
\* rejection reason exactly when its status is Rejected.
C31_DecisionFieldsMatchStatus ==
    \A e \in DOMAIN journalentries :
        /\ journalentries[e].ApprovedByUserID # NULL <=> IsDecided(journalentries[e])
        /\ journalentries[e].ApprovalDate # NULL <=> IsDecided(journalentries[e])
        /\ journalentries[e].RejectionReason # NoReason
              <=> journalentries[e].Status = "Rejected"

AccountOperations == {"create_account", "update_account", "deactivate_account"}

\* C32: create_account, update_account and deactivate_account succeed only
\* for a user whose role is Administrator; a user with any other role, and a
\* user whose profile has no role attached, is refused.
C32_AccountOperationsAdminOnly ==
    \A p \in Procs :
        (pc[p] # "idle" /\ req[p].op \in AccountOperations
            /\ CurrentUserRole(req[p].user) # "Administrator")
        => (pc[p] = "done" /\ resp[p].code = 403)

\* the rows of password_history that are among the 5 most recent of the user
RecentRowsOf(u) ==
    {k \in DOMAIN password_history :
        /\ password_history[k].user_id = u
        /\ Cardinality({j \in DOMAIN password_history :
                            j > k /\ password_history[j].user_id = u}) < 5}

C34_EditAgainstApprove ==
    \A p, q \in Procs :
        (/\ pc[p] = "done" /\ req[p].op = "update" /\ req[p].lines_given
         /\ pc[q] = "done" /\ req[q].op = "approve" /\ resp[q].code = 200
         /\ req[p].id = req[q].id)
        => /\ Len(PostingsOf(req[q].id)) >= 2
           /\ Len(PostingsOf(req[q].id)) = Len(LinesOf(req[q].id))
           /\ \A k \in 1..Len(LinesOf(req[q].id)) :
                 Count(PostingsOf(req[q].id), ExpectedPostings(req[q].id)[k])
                    = Count(ExpectedPostings(req[q].id), ExpectedPostings(req[q].id)[k])

RECURSIVE SumDebit(_)
SumDebit(rows) == IF rows = <<>> THEN 0 ELSE Head(rows).Debit + SumDebit(Tail(rows))

RECURSIVE SumCredit(_)
SumCredit(rows) == IF rows = <<>> THEN 0 ELSE Head(rows).Credit + SumCredit(Tail(rows))

\* C35: trial balance: with no operation in progress, the Debit amounts of all
\* the postings of the ledger and their Credit amounts have the same sum.
C35_TrialBalance ==
    NoOperationInProgress => SumDebit(accountledger) = SumCredit(accountledger)

RECURSIVE SumOfBalances(_, _)
\* the sum of the balances of the accounts of the set ids
SumOfBalances(accounts, ids) ==
    IF ids = {} THEN 0
    ELSE LET a == CHOOSE x \in ids : TRUE
         IN accounts[a].Balance + SumOfBalances(accounts, ids \ {a})

\* the balances of the Debit-normal accounts minus those of the Credit-normal
NormalSideDifference(accounts) ==
    SumOfBalances(accounts, {a \in DOMAIN accounts : accounts[a].NormalSide = "Debit"})
    - SumOfBalances(accounts, {a \in DOMAIN accounts : accounts[a].NormalSide = "Credit"})

\* C36: with requests handled one after the other, the sum of the balances of
\* the Debit-normal accounts minus the sum of the balances of the
\* Credit-normal accounts is, after every approve that succeeded, what it was
\* when the approve started: whenever no request is being handled, so before
\* an approve starts and after it has ended, it has the value it had at the
\* start.
C36_ApproveKeepsNormalSideDifference ==
    NoOperationInProgress =>
        NormalSideDifference(chartofaccounts) = NormalSideDifference(InitialAccounts)

\* an approve has succeeded and has changed the balances of both accounts
C36_Witness ==
    \E p \in Procs :
        /\ pc[p] = "done" /\ req[p].op = "approve" /\ resp[p].code = 200
        /\ chartofaccounts[1].Balance # InitialBalance
        /\ chartofaccounts[2].Balance # InitialBalance
        /\ Len(PostingsOf(req[p].id)) >= 2

\* C37: every posting row of a ledger read carries the running balance that
\* the unfiltered read of the same account reports on the same posting.
C37_FilteredReadSameRunningBalance ==
    \A p \in Procs :
        ReadLedger(p) =>
            LET a == req[p].id
                rows == PostingRows(resp[p].body.rows)
                whole == AccountLedger(chartofaccounts[a], accountledger, a, NoDate, NoDate)
            IN \A k \in 1..Len(rows) :
                  \E j \in 1..Len(whole) :
                      /\ whole[j].post_ref = rows[k].post_ref
                      /\ whole[j].post_timestamp = rows[k].post_timestamp
                      /\ whole[j].balance = rows[k].balance

\* C38: in every reachable state, every account that is not active has a
\* balance of zero.
C38_InactiveAccountsHaveZeroBalance ==
    \A a \in DOMAIN chartofaccounts :
        ~chartofaccounts[a].IsActive => chartofaccounts[a].Balance = 0

====
